---- MODULE Spec2Model ----
(***************************************************************************)
(* Model of the LeadGen lead-harvesting pipeline (lead_pipeline package).  *)
(*                                                                         *)
(* Strings are sequences of character codes (Python code points), so that  *)
(* str.lower(), str.strip(), re.sub(), sorted() and the `in` substring     *)
(* test are computed character by character, as the interpreter does.      *)
(* Python's None is the value None below; "" is the empty sequence <<>>.   *)
(***************************************************************************)
EXTENDS Integers, Sequences, FiniteSets, TLC

VARIABLES
    \* ---- _deduplicate_contacts (pipeline.py) ----
    rawContacts,    \* the field values of the input records at call time
    contacts,       \* the input ContactRecord objects (mutable, by position)
    merged,         \* the dict `merged`: insertion-ordered <<signature, ref>>
    nextContact,    \* position of the `for contact in contacts` loop
    deduped,        \* the returned list(merged.values())
    ddPc,           \* "loop" | "done"
    \* ---- SupabaseSink (storage.py) and the tables behind it ----
    client,         \* self._client is not None
    store,          \* [businesses, contacts]: the rows of each table, in row order
    uniqueIndex,    \* per table: a unique index on the on_conflict columns exists
    stOp,           \* "businesses" | "contacts": which upsert_* is called
    stArg,          \* the list passed to upsert_*
    payload,        \* the list `payload` of column dicts
    entryIdx,       \* position of the `for entry in payload` loop
    stPc,           \* "idle" | "batch" | "rows" | "returned" | "raised"
    storeAtCall,    \* the tables when the current call began
    storeAfterCall, \* the tables after each call that returned normally
    \* ---- LeadHarvestPipeline.run (pipeline.py) and the web it crawls ----
    businesses,     \* the list `businesses`
    max_businesses, \* the parameter; -1 stands for None
    crawl_settings, \* config.crawl_settings, and the clock's year
    bizIdx,         \* position of the `for business in businesses` loop
    runPc,          \* position inside run()
    link_sets,      \* the dict score_site_links returned
    linkIdx,        \* position of the loops of crawl_contact_surfaces
    records,        \* the list `records` of crawl_contact_surfaces
    snapshots,      \* the list discover_snapshots returned
    snapIdx,        \* position of the `for snapshot in snapshots` loop
    contact_map,    \* the dict `contact_map`: insertion-ordered <<name, list>>
    web,            \* <<>> or <<site>>: the site met, fixed by the first page fetched
    siteLinks,      \* the answer of the link-scoring crawl, once made
    archiveIndex,   \* the answer of the archive index, once asked
    archiveListing, \* the answer of the listing-page crawl, once made
    extractLog,     \* calls issued for the current business, with what they returned
    persistLog,     \* arguments of the upsert_contacts calls for the current business
    storeAtBusiness \* the tables when the current business was started

resolveVars == <<rawContacts, contacts, merged, nextContact, deduped, ddPc>>
sinkVars == <<client, store, uniqueIndex>>
callVars == <<stOp, stArg, payload, entryIdx, stPc, storeAtCall, storeAfterCall>>
runVars == <<businesses, max_businesses, crawl_settings, bizIdx, runPc, link_sets,
             linkIdx, records, snapshots, snapIdx, contact_map, web, siteLinks,
             archiveIndex, archiveListing, extractLog, persistLog, storeAtBusiness>>
vars == <<resolveVars, sinkVars, callVars, runVars>>

(***************************************************************************)
(* Python string primitives                                                *)
(***************************************************************************)
None == <<-1>>

Range(s) == {s[i] : i \in DOMAIN s}

\* truthiness of an Optional[str]
Truthy(x) == x # None /\ x # <<>>

\* `x or ""`
OrEmpty(x) == IF Truthy(x) THEN x ELSE <<>>

CharLower(c) == IF c \in 65..90 THEN c + 32 ELSE c

\* str.lower()
lower(s) == [i \in 1..Len(s) |-> CharLower(s[i])]

IsSpace(c) == c \in {9, 10, 11, 12, 13, 32}

\* str.strip()
strip(s) ==
    LET keep == {i \in 1..Len(s) : ~IsSpace(s[i])}
    IN  IF keep = {} THEN <<>>
        ELSE LET first == CHOOSE i \in keep : \A j \in keep : i <= j
                 last  == CHOOSE i \in keep : \A j \in keep : i >= j
             IN  SubSeq(s, first, last)

IsDigit(c) == c \in 48..57

IsAlnumLower(c) == c \in 97..122 \/ c \in 48..57

\* str.lstrip("0")
lstrip0(s) ==
    LET keep == {i \in 1..Len(s) : s[i] # 48}
    IN  IF keep = {} THEN <<>>
        ELSE SubSeq(s, CHOOSE i \in keep : \A j \in keep : i <= j, Len(s))

\* a < b for str (code-point lexicographic order)
StrLess(a, b) ==
    \E i \in 1..Len(b) :
        /\ \A j \in 1..(i - 1) : j <= Len(a) /\ a[j] = b[j]
        /\ i - 1 <= Len(a)
        /\ (i > Len(a) \/ a[i] < b[i])

\* tuple(sorted(S)) for a set of str
RECURSIVE sorted(_)
sorted(S) ==
    IF S = {} THEN <<>>
    ELSE LET m == CHOOSE x \in S : \A y \in S \ {x} : StrLess(x, y)
         IN  <<m>> \o sorted(S \ {m})

\* needle in hay
IsSubstr(needle, hay) ==
    \E i \in 0..(Len(hay) - Len(needle)) :
        SubSeq(hay, i + 1, i + Len(needle)) = needle

\* literals of pipeline.py
SepBar == <<32, 124, 32>>                                             \* " | "
AdditionalSource ==
    <<65, 100, 100, 105, 116, 105, 111, 110, 97, 108, 32,
      115, 111, 117, 114, 99, 101, 58, 32>>                  \* "Additional source: "

(***************************************************************************)
(* Normalizers and signature                                               *)
(***************************************************************************)
NormalizeName(name) ==
    IF ~Truthy(name) THEN <<>>
    ELSE SelectSeq(lower(name), IsAlnumLower)

NormalizeEmails(emails) ==
    sorted({lower(strip(e)) : e \in {x \in Range(emails) : x # <<>>}})

NormalizePhones(numbers) ==
    LET cleaned   == {SelectSeq(n, IsDigit) : n \in {x \in Range(numbers) : x # <<>>}}
        sanitized == {IF lstrip0(num) # <<>> THEN lstrip0(num) ELSE num :
                        num \in {x \in cleaned : x # <<>>}}
    IN  sorted(sanitized)

NormalizeSocialLinks(links) ==
    sorted({lower(strip(l)) : l \in {x \in Range(links) : x # <<>>}})

\* mutation: the fallback takes the first raw address, not the first of the key
NameTokenRawFirst(contact) ==
    LET name_token == NormalizeName(contact.person_name)
    IN  IF name_token = <<>> /\ contact.emails # <<>> THEN contact.emails[1]
        ELSE IF name_token = <<>> /\ NormalizePhones(contact.phone_numbers) # <<>>
             THEN NormalizePhones(contact.phone_numbers)[1]
             ELSE name_token

\* the name component of the signature (name_token after the two fallbacks)
NameToken(contact) ==
    LET name_token   == NormalizeName(contact.person_name)
        email_tokens == NormalizeEmails(contact.emails)
        phone_tokens == NormalizePhones(contact.phone_numbers)
        t1 == IF name_token = <<>> /\ email_tokens # <<>>
              THEN email_tokens[1] ELSE name_token
        t2 == IF t1 = <<>> /\ phone_tokens # <<>>
              THEN phone_tokens[1] ELSE t1
    IN  t2

ContactSignature(contact) ==
    << lower(strip(contact.business_name)),
       NameToken(contact),
       NormalizeEmails(contact.emails),
       NormalizePhones(contact.phone_numbers),
       NormalizeSocialLinks(contact.social_links),
       IF Truthy(contact.position) THEN lower(strip(contact.position)) ELSE <<>>,
       contact.source_type,
       OrEmpty(contact.snapshot_timestamp) >>

(***************************************************************************)
(* Merge                                                                   *)
(***************************************************************************)
\* mutation: nothing of the incoming list is appended
MergeListsKeep(primary, secondary) == primary

\* mutation: an incoming item is compared as written, not lower-cased
RECURSIVE MergeListsExact(_, _)
MergeListsExact(primary, secondary) ==
    IF secondary = <<>> THEN primary
    ELSE LET item == Head(secondary)
         IN  IF item = <<>> \/ item \in Range(primary)
             THEN MergeListsExact(primary, Tail(secondary))
             ELSE MergeListsExact(Append(primary, item), Tail(secondary))

RECURSIVE MergeLists(_, _)
MergeLists(primary, secondary) ==
    IF secondary = <<>> THEN primary
    ELSE LET item == Head(secondary)
             seen == {lower(p) : p \in Range(primary)}
         IN  IF item = <<>> \/ lower(item) \in seen
             THEN MergeLists(primary, Tail(secondary))
             ELSE MergeLists(Append(primary, item), Tail(secondary))

\* mutation: the substring test is missing
MergeNotesAlways(base_notes, incoming_notes) ==
    IF Truthy(incoming_notes)
    THEN IF Truthy(base_notes) THEN base_notes \o SepBar \o incoming_notes
         ELSE incoming_notes
    ELSE base_notes

\* mutation: non-empty incoming notes replace the base's
MergeNotesOverwrite(base_notes, incoming_notes) ==
    IF Truthy(incoming_notes) THEN incoming_notes ELSE base_notes

\* lines 96-100: the notes rule
MergeNotes(base_notes, incoming_notes) ==
    IF Truthy(incoming_notes)
    THEN IF Truthy(base_notes) /\ ~IsSubstr(lower(incoming_notes), lower(base_notes))
         THEN base_notes \o SepBar \o incoming_notes
         ELSE IF ~Truthy(base_notes) THEN incoming_notes ELSE base_notes
    ELSE base_notes

\* mutation: a differing incoming source URL replaces the base's
MergeSourceOverwrite(base, incoming) ==
    IF incoming.source_url # <<>> /\ incoming.source_url # base.source_url
    THEN [base EXCEPT !.source_url = incoming.source_url]
    ELSE base

\* lines 102-110: the source URL rule, on the base after the notes rule
MergeSource(base, incoming) ==
    IF incoming.source_url # <<>> /\ incoming.source_url # base.source_url
    THEN IF base.source_url # <<>>
         THEN [base EXCEPT !.notes =
                  IF Truthy(base.notes)
                  THEN base.notes \o SepBar \o AdditionalSource \o incoming.source_url
                  ELSE AdditionalSource \o incoming.source_url]
         ELSE [base EXCEPT !.source_url = incoming.source_url]
    ELSE base

\* mutation: a non-empty incoming scalar replaces the base's
MergeContactsIncomingWins(base, incoming) ==
    LET b1 == [base EXCEPT
                 !.person_name = IF Truthy(incoming.person_name)
                                 THEN incoming.person_name ELSE @,
                 !.position    = IF Truthy(incoming.position)
                                 THEN incoming.position ELSE @,
                 !.location    = IF Truthy(incoming.location)
                                 THEN incoming.location ELSE @]
        b2 == [b1 EXCEPT
                 !.emails        = MergeLists(b1.emails, incoming.emails),
                 !.phone_numbers = MergeLists(b1.phone_numbers, incoming.phone_numbers),
                 !.social_links  = MergeLists(b1.social_links, incoming.social_links)]
        b3 == [b2 EXCEPT !.notes = MergeNotes(b2.notes, incoming.notes)]
    IN  MergeSource(b3, incoming)

\* _merge_contacts: the value the base object holds after the call
MergeContacts(base, incoming) ==
    LET b1 == [base EXCEPT
                 !.person_name = IF ~Truthy(base.person_name) /\ Truthy(incoming.person_name)
                                 THEN incoming.person_name ELSE @,
                 !.position    = IF ~Truthy(base.position) /\ Truthy(incoming.position)
                                 THEN incoming.position ELSE @,
                 !.location    = IF ~Truthy(base.location) /\ Truthy(incoming.location)
                                 THEN incoming.location ELSE @]
        b2 == [b1 EXCEPT
                 !.emails        = MergeLists(b1.emails, incoming.emails),
                 !.phone_numbers = MergeLists(b1.phone_numbers, incoming.phone_numbers),
                 !.social_links  = MergeLists(b1.social_links, incoming.social_links)]
        b3 == [b2 EXCEPT !.notes = MergeNotes(b2.notes, incoming.notes)]
    IN  MergeSource(b3, incoming)

(***************************************************************************)
(* _deduplicate_contacts                                                   *)
(***************************************************************************)
\* mutation: the lookup compares the e-mail component of the key only
MergedGetByEmail(m, signature) ==
    IF \E k \in DOMAIN m : m[k][1][3] = signature[3]
    THEN CHOOSE k \in DOMAIN m : m[k][1][3] = signature[3]
    ELSE 0

\* mutation: the lookup sees only the entry inserted last
MergedGetLast(m, signature) ==
    IF m # <<>> /\ m[Len(m)][1] = signature THEN Len(m) ELSE 0

\* merged.get(signature): the position in `merged` holding the key, 0 for None
MergedGet(m, signature) ==
    IF \E k \in DOMAIN m : m[k][1] = signature
    THEN CHOOSE k \in DOMAIN m : m[k][1] = signature
    ELSE 0

\* one iteration of the loop on the k-th input object: the objects and the dict
DedupStep(cs, m, k) ==
    LET signature == ContactSignature(cs[k])
        existing  == MergedGet(m, signature)
    IN  IF existing # 0
        THEN [objs |-> [cs EXCEPT ![m[existing][2]] = MergeContacts(cs[m[existing][2]], cs[k])],
              dict |-> m]
        ELSE [objs |-> cs, dict |-> Append(m, <<signature, k>>)]

\* list(merged.values())
MergedValues(cs, m) == [k \in DOMAIN m |-> cs[m[k][2]]]

\* the loop from position k on: the objects and the dict when it ends
RECURSIVE DedupFrom(_, _, _)
DedupFrom(cs, m, k) ==
    IF k > Len(cs) THEN [objs |-> cs, dict |-> m]
    ELSE LET s == DedupStep(cs, m, k) IN DedupFrom(s.objs, s.dict, k + 1)

\* the list _deduplicate_contacts returns for an input list
DeduplicateContacts(cs) ==
    LET end == DedupFrom(cs, <<>>, 1) IN MergedValues(end.objs, end.dict)

\* the input objects after the call (a base is merged into in place)
DedupObjects(cs) == DedupFrom(cs, <<>>, 1).objs

(***************************************************************************)
(* Raw records fed to the resolver                                         *)
(***************************************************************************)
AcmeLLC   == <<65, 99, 109, 101, 32, 76, 76, 67>>                    \* "Acme LLC"
JaneDoe   == <<74, 97, 110, 101, 32, 68, 111, 101>>                  \* "Jane Doe"
JANEDOE   == <<74, 65, 78, 69, 32, 68, 79, 69>>                      \* "JANE DOE"
Blank     == <<32>>                                                  \* " "
JANEmail  == <<74, 65, 78, 69, 64, 97, 99, 109, 101, 46, 99, 111, 109>>      \* "JANE@acme.com"
janeEmail == <<106, 97, 110, 101, 64, 97, 99, 109, 101, 46, 99, 111, 109>>   \* "jane@acme.com"
PhoneFmt  == <<40, 50, 49, 50, 41, 32, 53, 53, 53, 45, 48, 49, 48, 48>>      \* "(212) 555-0100"
PhoneRaw  == <<50, 49, 50, 53, 53, 53, 48, 49, 48, 48>>                      \* "2125550100"
Phone5    == <<53>>                                                  \* "5"
Phone000  == <<48, 48, 48>>                                          \* "000"
Dashes    == <<45, 45>>                                              \* "--"
UrlHome   == <<104, 116, 116, 112, 115, 58, 47, 47, 97, 46, 99, 111>>          \* "https://a.co"
UrlTeam   == <<104, 116, 116, 112, 115, 58, 47, 47, 97, 46, 99, 111, 47, 116>> \* "https://a.co/t"
Partner   == <<80, 97, 114, 116, 110, 101, 114>>                     \* "Partner"
partner   == <<112, 97, 114, 116, 110, 101, 114>>                    \* "partner"
Bio       == <<66, 105, 111>>                                        \* "Bio"
NY        == <<78, 89>>                                              \* "NY"
LinkX     == <<120, 46, 99, 111, 47, 106>>                           \* "x.co/j"
LINKX     == <<88, 46, 67, 79, 47, 106>>                             \* "X.CO/j"

\* ContactRecord(...), models.py
Contact(name, position, emails, phones, links, location, notes, url) ==
    [business_name |-> AcmeLLC, person_name |-> name, position |-> position,
     emails |-> emails, phone_numbers |-> phones, social_links |-> links,
     location |-> location, notes |-> notes, source_url |-> url,
     source_type |-> "internal", snapshot_timestamp |-> None]

\* the two observations of spec section 8, "End-to-end scenario"
HomepageJane == Contact(JaneDoe, None, <<JANEmail>>, <<>>, <<>>, None, None, UrlHome)
TeamPageJane == Contact(<<>>, None, <<janeEmail>>, <<PhoneFmt>>, <<>>, None, None, UrlTeam)

RecordPool ==
    { HomepageJane,
      TeamPageJane,
      \* the same person again, other spelling, other page
      Contact(JANEDOE, None, <<janeEmail>>, <<>>, <<>>, NY, Bio, UrlTeam),
      \* and again, from the homepage, with a different remark
      Contact(JaneDoe, None, <<janeEmail>>, <<>>, <<>>, None, Partner, UrlHome),
      \* unnamed observations keyed by their e-mail address
      Contact(<<>>, None, <<JANEmail>>, <<>>, <<LinkX>>, None, Partner, UrlHome),
      Contact(Blank, Blank, <<janeEmail>>, <<>>, <<LINKX>>, NY, partner, UrlTeam),
      Contact(<<>>, None, <<<<>>, janeEmail>>, <<>>, <<LinkX>>, None, None, <<>>),
      \* unnamed observations with blank e-mail entries
      Contact(<<>>, None, <<<<>>>>, <<Phone5>>, <<>>, None, None, UrlHome),
      Contact(<<>>, None, <<Blank>>, <<Phone5>>, <<>>, None, Bio, UrlTeam),
      \* the team-page observation with the number written without punctuation
      Contact(<<>>, None, <<JANEmail>>, <<PhoneRaw>>, <<>>, NY, None, UrlHome),
      \* unnamed observation keyed by its phone number
      Contact(Blank, None, <<>>, <<PhoneRaw, PhoneFmt>>, <<>>, None, None, UrlTeam),
      \* the team-page observation once more, its e-mail list led by an empty entry
      Contact(<<>>, None, <<<<>>, janeEmail>>, <<PhoneFmt>>, <<>>, None, None, UrlTeam),
      \* unnamed observation whose numbers are zeros, and punctuation only
      Contact(<<>>, None, <<>>, <<Phone000, Dashes>>, <<>>, None, None, UrlHome) }

MaxContacts == 3

(***************************************************************************)
(* SupabaseSink: payloads, and the table operations the client issues      *)
(***************************************************************************)
\* BusinessProfile(...), models.py
Business(name, website, google_maps_url) ==
    [query |-> <<>>, name |-> name, address |-> None, phone |-> None,
     website |-> website, google_maps_url |-> google_maps_url, rating |-> None,
     review_count |-> None, additional_metadata |-> <<>>]

\* the payload dict of one business (all nine columns, values as they are)
BusinessEntry(business) ==
    [name |-> business.name, query |-> business.query, address |-> business.address,
     phone |-> business.phone, website |-> business.website,
     google_maps_url |-> business.google_maps_url, rating |-> business.rating,
     review_count |-> business.review_count,
     additional_metadata |-> business.additional_metadata]

\* the payload dict of one contact
ContactEntry(contact) ==
    [business_name |-> contact.business_name,
     person_name |-> OrEmpty(contact.person_name),
     position |-> OrEmpty(contact.position),
     emails |-> contact.emails,
     phone_numbers |-> contact.phone_numbers,
     social_links |-> contact.social_links,
     location |-> contact.location,
     notes |-> contact.notes,
     source_url |-> contact.source_url,
     source_type |-> contact.source_type,
     snapshot_timestamp |-> OrEmpty(contact.snapshot_timestamp)]

BuildPayload(op, list) ==
    IF op = "businesses" THEN [k \in DOMAIN list |-> BusinessEntry(list[k])]
    ELSE [k \in DOMAIN list |-> ContactEntry(list[k])]

\* the on_conflict columns of a row of either table
ConflictKey(op, row) ==
    IF op = "businesses" THEN <<row.google_maps_url>>
    ELSE <<row.business_name, row.person_name, row.position,
           row.source_type, row.snapshot_timestamp>>

\* select("id").eq(...).limit(1).execute().data is non-empty
Existing(table, op, entry) ==
    \E k \in DOMAIN table : ConflictKey(op, table[k]) = ConflictKey(op, entry)

\* update(entry).eq(...): every row with the entry's key takes the entry's values
UpdateRows(table, op, entry) ==
    [k \in DOMAIN table |->
        IF ConflictKey(op, table[k]) = ConflictKey(op, entry) THEN entry ELSE table[k]]

\* insert(entry)
InsertRow(table, entry) == Append(table, entry)

\* mutation: the lookup never finds a row
RowUpdatesNever(table, op, entry) == FALSE

\* the row-by-row branch chosen for an entry: businesses look a row up only
\* for a truthy google_maps_url, contacts always do
RowUpdates(table, op, entry) ==
    IF op = "businesses"
    THEN entry.google_maps_url # <<>> /\ Existing(table, op, entry)
    ELSE Existing(table, op, entry)

\* the table after a batch upsert(payload, on_conflict=...) that succeeded
RECURSIVE BatchUpsert(_, _, _)
BatchUpsert(table, op, entries) ==
    IF entries = <<>> THEN table
    ELSE BatchUpsert(IF Existing(table, op, Head(entries))
                     THEN UpdateRows(table, op, Head(entries))
                     ELSE InsertRow(table, Head(entries)),
                     op, Tail(entries))

DistinctKeys(op, entries) ==
    \A a, b \in DOMAIN entries :
        a # b => ConflictKey(op, entries[a]) # ConflictKey(op, entries[b])

\* the statement can succeed: the index the ON CONFLICT clause names exists
\* and no row would be affected twice
BatchCanSucceed(table, unique, op, entries) == unique /\ DistinctKeys(op, entries)

\* insert(entry) can succeed: it does not violate the unique index
InsertCanSucceed(table, unique, op, entry) == ~(unique /\ Existing(table, op, entry))

(***************************************************************************)
(* Arguments of upsert_businesses / upsert_contacts                        *)
(***************************************************************************)
Beta    == <<66, 101, 116, 97>>                                       \* "Beta"
MapsUrl == <<109, 97, 112, 115, 47, 49>>                              \* "maps/1"

BusinessPool ==
    { Business(AcmeLLC, None, <<>>),              \* as import_to_supabase builds them
      Business(Beta, None, <<>>),
      Business(AcmeLLC, UrlHome, MapsUrl),        \* as the Maps extraction builds them
      Business(Beta, None, MapsUrl) }

StoredContactPool ==
    { HomepageJane, TeamPageJane,
      Contact(<<>>, None, <<JANEmail>>, <<>>, <<LinkX>>, None, Partner, UrlHome) }

MaxBatch == 2
MaxCalls == 2

Lists(pool, n) == UNION {[1..k -> pool] : k \in 0..n}

InitialTables ==
    { [businesses |-> <<>>, contacts |-> <<>>],
      [businesses |-> <<BusinessEntry(Business(AcmeLLC, None, MapsUrl))>>,
       contacts   |-> <<ContactEntry(TeamPageJane)>>] }

(***************************************************************************)
(* upsert_businesses / upsert_contacts as a state machine                  *)
(***************************************************************************)
runIdle ==
    /\ businesses = <<>> /\ max_businesses = -1
    /\ crawl_settings = [max_internal_links |-> 15, max_external_links |-> 10,
                         wayback_snapshot_limit |-> 5, wayback_years_back |-> 5,
                         year |-> 2024]
    /\ bizIdx = 1 /\ runPc = "idle"
    /\ link_sets = [internal |-> <<>>, external |-> <<>>] /\ linkIdx = 1
    /\ records = <<>> /\ snapshots = <<>> /\ snapIdx = 1 /\ contact_map = <<>>
    /\ web = <<>> /\ siteLinks = <<>> /\ archiveIndex = <<>> /\ archiveListing = <<>>
    /\ extractLog = <<>> /\ persistLog = <<>>
    /\ storeAtBusiness = [businesses |-> <<>>, contacts |-> <<>>]

resolverIdle ==
    /\ rawContacts = <<>> /\ contacts = <<>> /\ merged = <<>>
    /\ nextContact = 1 /\ deduped = <<>> /\ ddPc = "idle"

InitStore ==
    /\ resolverIdle
    /\ runIdle
    /\ client \in BOOLEAN
    /\ store \in InitialTables
    /\ uniqueIndex \in {[businesses |-> TRUE, contacts |-> TRUE],
                        [businesses |-> FALSE, contacts |-> FALSE]}
    /\ stOp \in {"businesses", "contacts"}
    /\ stArg \in IF stOp = "businesses" THEN Lists(BusinessPool, MaxBatch)
                 ELSE Lists(StoredContactPool, MaxBatch)
    /\ payload = <<>>
    /\ entryIdx = 1
    /\ stPc = "idle"
    /\ storeAtCall = store
    /\ storeAfterCall = <<>>

\* `if not businesses or not self._client: return`
UpsertNoop ==
    /\ stPc \in {"idle", "returned"}
    /\ Len(storeAfterCall) < MaxCalls
    /\ (stArg = <<>> \/ ~client)
    /\ storeAtCall' = store
    /\ storeAfterCall' = Append(storeAfterCall, store)
    /\ stPc' = "returned"
    /\ UNCHANGED <<runVars, resolveVars, sinkVars, stOp, stArg, payload, entryIdx>>

\* the payload is built and the batch upsert is about to be executed
UpsertBegin ==
    /\ stPc \in {"idle", "returned"}
    /\ Len(storeAfterCall) < MaxCalls
    /\ stArg # <<>> /\ client
    /\ payload' = BuildPayload(stOp, stArg)
    /\ entryIdx' = 1
    /\ storeAtCall' = store
    /\ stPc' = "batch"
    /\ UNCHANGED <<runVars, resolveVars, sinkVars, stOp, stArg, storeAfterCall>>

\* upsert(payload, on_conflict=...).execute() succeeds
BatchOk ==
    /\ stPc = "batch"
    /\ BatchCanSucceed(store[stOp], uniqueIndex[stOp], stOp, payload)
    /\ store' = [store EXCEPT ![stOp] = BatchUpsert(@, stOp, payload)]
    /\ storeAfterCall' = Append(storeAfterCall, store')
    /\ stPc' = "returned"
    /\ UNCHANGED <<runVars, resolveVars, client, uniqueIndex, stOp, stArg, payload, entryIdx,
                   storeAtCall>>

\* APIError with code 42P10 (no index for ON CONFLICT) or 23505 (another
\* unique constraint): nothing written, the row-by-row loop starts
BatchConflict ==
    /\ stPc = "batch"
    /\ stPc' = "rows"
    /\ entryIdx' = 1
    /\ UNCHANGED <<runVars, resolveVars, sinkVars, stOp, stArg, payload, storeAtCall,
                   storeAfterCall>>

\* APIError with another code, or another exception: RuntimeError
BatchFatal ==
    /\ stPc = "batch"
    /\ stPc' = "raised"
    /\ UNCHANGED <<runVars, resolveVars, sinkVars, stOp, stArg, payload, entryIdx, storeAtCall,
                   storeAfterCall>>

\* a row with the entry's key exists: update(entry).eq(...)
RowUpdate ==
    /\ stPc = "rows"
    /\ entryIdx <= Len(payload)
    /\ RowUpdates(store[stOp], stOp, payload[entryIdx])
    /\ store' = [store EXCEPT ![stOp] = UpdateRows(@, stOp, payload[entryIdx])]
    /\ entryIdx' = entryIdx + 1
    /\ UNCHANGED <<runVars, resolveVars, client, uniqueIndex, stOp, stArg, payload, stPc,
                   storeAtCall, storeAfterCall>>

\* no row matched (or no lookup was made): insert(entry)
RowInsert ==
    /\ stPc = "rows"
    /\ entryIdx <= Len(payload)
    /\ ~RowUpdates(store[stOp], stOp, payload[entryIdx])
    /\ InsertCanSucceed(store[stOp], uniqueIndex[stOp], stOp, payload[entryIdx])
    /\ store' = [store EXCEPT ![stOp] = InsertRow(@, payload[entryIdx])]
    /\ entryIdx' = entryIdx + 1
    /\ UNCHANGED <<runVars, resolveVars, client, uniqueIndex, stOp, stArg, payload, stPc,
                   storeAtCall, storeAfterCall>>

\* a request of the loop body raises: RuntimeError from the inner handler
RowFail ==
    /\ stPc = "rows"
    /\ entryIdx <= Len(payload)
    /\ stPc' = "raised"
    /\ UNCHANGED <<runVars, resolveVars, sinkVars, stOp, stArg, payload, entryIdx, storeAtCall,
                   storeAfterCall>>

\* the loop is exhausted: the call returns
RowsDone ==
    /\ stPc = "rows"
    /\ entryIdx > Len(payload)
    /\ storeAfterCall' = Append(storeAfterCall, store)
    /\ stPc' = "returned"
    /\ UNCHANGED <<runVars, resolveVars, sinkVars, stOp, stArg, payload, entryIdx, storeAtCall>>

NextStore ==
    \/ UpsertNoop \/ UpsertBegin
    \/ BatchOk \/ BatchConflict \/ BatchFatal
    \/ RowUpdate \/ RowInsert \/ RowFail \/ RowsDone

SpecStore == InitStore /\ [][NextStore]_vars

sinkIdle ==
    /\ client = FALSE
    /\ store = [businesses |-> <<>>, contacts |-> <<>>]
    /\ uniqueIndex = [businesses |-> FALSE, contacts |-> FALSE]
    /\ stOp = "contacts" /\ stArg = <<>> /\ payload = <<>> /\ entryIdx = 1
    /\ stPc = "idle" /\ storeAtCall = store /\ storeAfterCall = <<>>

(***************************************************************************)
(* The resolver as a state machine: one action per loop branch             *)
(***************************************************************************)
InitResolve ==
    /\ sinkIdle
    /\ runIdle
    /\ rawContacts \in UNION {[1..n -> RecordPool] : n \in 0..MaxContacts}
    /\ contacts = rawContacts
    /\ merged = <<>>
    /\ nextContact = 1
    /\ deduped = <<>>
    /\ ddPc = "loop"

\* `existing` is None: merged[signature] = contact
DedupInsert ==
    /\ ddPc = "loop"
    /\ nextContact <= Len(contacts)
    /\ MergedGet(merged, ContactSignature(contacts[nextContact])) = 0
    /\ merged' = DedupStep(contacts, merged, nextContact).dict
    /\ contacts' = DedupStep(contacts, merged, nextContact).objs
    /\ nextContact' = nextContact + 1
    /\ UNCHANGED <<rawContacts, deduped, ddPc, sinkVars, callVars, runVars>>

\* `existing` is a record: _merge_contacts(existing, contact)
DedupMerge ==
    /\ ddPc = "loop"
    /\ nextContact <= Len(contacts)
    /\ MergedGet(merged, ContactSignature(contacts[nextContact])) # 0
    /\ merged' = DedupStep(contacts, merged, nextContact).dict
    /\ contacts' = DedupStep(contacts, merged, nextContact).objs
    /\ nextContact' = nextContact + 1
    /\ UNCHANGED <<rawContacts, deduped, ddPc, sinkVars, callVars, runVars>>

\* return list(merged.values())
DedupReturn ==
    /\ ddPc = "loop"
    /\ nextContact > Len(contacts)
    /\ deduped' = MergedValues(contacts, merged)
    /\ ddPc' = "done"
    /\ UNCHANGED <<rawContacts, contacts, merged, nextContact, sinkVars, callVars, runVars>>

NextResolve == DedupInsert \/ DedupMerge \/ DedupReturn

SpecResolve == InitResolve /\ [][NextResolve]_vars

(***************************************************************************)
(* site_crawler.py: link prioritisation and page extraction                *)
(***************************************************************************)
HttpPrefix  == <<104, 116, 116, 112, 58, 47, 47>>                     \* "http://"
HttpsPrefix == <<104, 116, 116, 112, 115, 58, 47, 47>>                \* "https://"

\* str.startswith
StartsWith(s, prefix) ==
    Len(s) >= Len(prefix) /\ SubSeq(s, 1, Len(prefix)) = prefix

\* _normalize: <<url, score>>, or None.  A missing key and a falsy value are
\* both read through `or`, so a missing key is the falsy value here.  Scores
\* are in tenths.
NormalizeLink(link) ==
    LET url == IF link.url # <<>> THEN link.url ELSE link.href
    IN  IF url = <<>> THEN None
        ELSE IF ~(StartsWith(url, HttpPrefix) \/ StartsWith(url, HttpsPrefix)) THEN None
        ELSE <<url, IF link.total_score # 0 THEN link.total_score
                    ELSE link.intrinsic_score>>

\* the loop of _rank: the (url, score) pairs kept, first occurrence of a URL wins
RECURSIVE RankCollect(_, _)
RankCollect(items, normalized) ==
    IF items = <<>> THEN normalized
    ELSE LET pair == NormalizeLink(Head(items))
         IN  IF pair = None \/ \E k \in DOMAIN normalized : normalized[k][1] = pair[1]
             THEN RankCollect(Tail(items), normalized)
             ELSE RankCollect(Tail(items), Append(normalized, pair))

\* mutation: of two pairs with equal scores the later one comes first
RECURSIVE SortByScoreTiesLast(_)
SortByScoreTiesLast(pairs) ==
    IF pairs = <<>> THEN <<>>
    ELSE LET rest == SortByScoreTiesLast(SubSeq(pairs, 1, Len(pairs) - 1))
             x    == pairs[Len(pairs)]
             pos  == Cardinality({k \in DOMAIN rest : rest[k][2] > x[2]})
         IN  SubSeq(rest, 1, pos) \o <<x>> \o SubSeq(rest, pos + 1, Len(rest))

\* list.sort(key=score, reverse=True): stable, equal scores keep their order
RECURSIVE SortByScoreDesc(_)
SortByScoreDesc(pairs) ==
    IF pairs = <<>> THEN <<>>
    ELSE LET rest == SortByScoreDesc(SubSeq(pairs, 1, Len(pairs) - 1))
             x    == pairs[Len(pairs)]
             pos  == Cardinality({k \in DOMAIN rest : rest[k][2] >= x[2]})
         IN  SubSeq(rest, 1, pos) \o <<x>> \o SubSeq(rest, pos + 1, Len(rest))

\* _rank
RankLinks(items) ==
    LET ranked == SortByScoreDesc(RankCollect(items, <<>>))
    IN  [k \in DOMAIN ranked |-> ranked[k][1]]

\* seq[:n] for n >= 0
Take(seq, n) == SubSeq(seq, 1, IF n < Len(seq) THEN n ELSE Len(seq))

\* _split_links on response.links (present = FALSE: no response, or no links)
SplitLinks(links, settings) ==
    IF ~links.present THEN [internal |-> <<>>, external |-> <<>>]
    ELSE [internal |-> Take(RankLinks(links.internal), settings.max_internal_links),
          external |-> Take(RankLinks(links.external), settings.max_external_links)]

RECURSIVE Flatten(_)
Flatten(seqs) == IF seqs = <<>> THEN <<>> ELSE Head(seqs) \o Flatten(Tail(seqs))

\* the people of a crawl result: [] on a failed fetch, an absent payload, an
\* unparsable payload or a payload that fails schema validation; a list
\* payload is the concatenation of its chunks' people
ExtractedPeople(result) ==
    IF ~result.success \/ result.kind = "none" THEN <<>>
    ELSE IF result.kind = "invalid" \/ ~result.valid THEN <<>>
    ELSE Flatten(result.chunks)

\* combined["people"].extend(item["people"]) on a chunk whose "people" is
\* null: TypeError, which `except (json.JSONDecodeError, ValueError)` does
\* not catch, leaves the function and its callers
ExtractionRaises(result) == result.success /\ result.kind = "null_people"

\* extract_contacts_from_page
ExtractContactsFromPage(business, page_url, result, source_type, snapshot_ts) ==
    LET people == ExtractedPeople(result)
    IN  [k \in DOMAIN people |->
            [business_name |-> business.name,
             person_name |-> people[k].full_name,
             position |-> people[k].position,
             emails |-> people[k].emails,
             phone_numbers |-> people[k].phone_numbers,
             social_links |-> people[k].social_links,
             location |-> people[k].location,
             notes |-> people[k].notes,
             source_url |-> page_url,
             source_type |-> source_type,
             snapshot_timestamp |-> snapshot_ts]]

(***************************************************************************)
(* wayback.py: snapshot discovery                                          *)
(***************************************************************************)
ArchivePrefix ==
    <<104, 116, 116, 112, 115, 58, 47, 47, 119, 101, 98, 46, 97, 114, 99, 104,
      105, 118, 101, 46, 111, 114, 103, 47, 119, 101, 98, 47>>  \* "https://web.archive.org/web/"
Slash == <<47>>                                                       \* "/"
Star  == <<42>>                                                       \* "*"
HdrTimestamp == <<116, 105, 109, 101, 115, 116, 97, 109, 112>>        \* "timestamp"
HdrOriginal  == <<111, 114, 105, 103, 105, 110, 97, 108>>             \* "original"
HdrStatus    == <<115, 116, 97, 116, 117, 115, 99, 111, 100, 101>>    \* "statuscode"
SourcedFrom  == <<83, 111, 117, 114, 99, 101, 100, 32, 102, 114, 111, 109, 32>>  \* "Sourced from "
SourcedFromParen ==
    <<32, 40, 115, 111, 117, 114, 99, 101, 100, 32, 102, 114, 111, 109, 32>>     \* " (sourced from "
CloseParen == <<41>>                                                  \* ")"

\* f"https://web.archive.org/web/{timestamp}/{original_url}"
SnapshotUrl(timestamp, original_url) ==
    ArchivePrefix \o timestamp \o Slash \o original_url

SnapshotRecord(original_url, snapshot_url, timestamp) ==
    [original_url |-> original_url, snapshot_url |-> snapshot_url,
     timestamp |-> timestamp, source_type |-> "wayback"]

\* header.index(name): the position, 0 for ValueError
HeaderIndex(header, name) ==
    IF \E k \in DOMAIN header : header[k] = name
    THEN CHOOSE k \in DOMAIN header : header[k] = name /\ \A j \in 1..(k - 1) : header[j] # name
    ELSE 0

RECURSIVE DigitsValue(_)
DigitsValue(s) ==
    IF s = <<>> THEN 0 ELSE 10 * DigitsValue(SubSeq(s, 1, Len(s) - 1)) + (s[Len(s)] - 48)

\* int(timestamp[:4]): the year, -1 for ValueError
ParseYear(timestamp) ==
    LET head == Take(timestamp, 4)
    IN  IF head # <<>> /\ \A k \in DOMAIN head : IsDigit(head[k])
        THEN DigitsValue(head) ELSE -1

\* the loop over data[1:], with its break once the limit is reached
RECURSIVE ApiRows(_, _, _, _, _, _)
ApiRows(rows, ts_idx, url_idx, cutoff_year, limit, collected) ==
    IF rows = <<>> THEN collected
    ELSE LET row == Head(rows)
             far == IF ts_idx > url_idx THEN ts_idx ELSE url_idx
         IN  IF Len(row) < far
                \/ row[ts_idx] = <<>> \/ row[url_idx] = <<>>
                \/ ParseYear(row[ts_idx]) = -1
                \/ ParseYear(row[ts_idx]) < cutoff_year
             THEN ApiRows(Tail(rows), ts_idx, url_idx, cutoff_year, limit, collected)
             ELSE LET grown == Append(collected,
                                  SnapshotRecord(row[url_idx],
                                                 SnapshotUrl(row[ts_idx], row[url_idx]),
                                                 row[ts_idx]))
                  IN  IF Len(grown) >= limit THEN grown
                      ELSE ApiRows(Tail(rows), ts_idx, url_idx, cutoff_year, limit, grown)

\* mutation: no capture is too old
CutoffYearNone(settings) == 0

\* cutoff_year = datetime.utcnow().year - crawl_settings.wayback_years_back
CutoffYear(settings) == settings.year - settings.wayback_years_back

\* _api_snapshot_lookup on the index's answer (ok = FALSE: httpx.HTTPError)
ApiSnapshotLookup(response, settings) ==
    IF ~response.ok THEN <<>>
    ELSE IF Len(response.data) <= 1 THEN <<>>
    ELSE LET header  == response.data[1]
             ts_idx  == HeaderIndex(header, HdrTimestamp)
             url_idx == HeaderIndex(header, HdrOriginal)
         IN  IF ts_idx = 0 \/ url_idx = 0 THEN <<>>
             ELSE ApiRows(Tail(response.data), ts_idx, url_idx, CutoffYear(settings),
                          settings.wayback_snapshot_limit, <<>>)

\* mutation: the index's result is never taken
IndexNeverAuthoritative(api_snapshots) == FALSE

\* `if api_snapshots: return api_snapshots`
IndexAuthoritative(api_snapshots) == api_snapshots # <<>>

\* the loop over parsed.snapshots of the fallback
RECURSIVE ListingEntries(_)
ListingEntries(entries) ==
    IF entries = <<>> THEN <<>>
    ELSE LET timestamp    == strip(Head(entries).timestamp)
             original_url == strip(Head(entries).original_url)
             given        == strip(Head(entries).snapshot_url)
             snapshot_url == IF IsSubstr(Star, given) \/ ~IsSubstr(timestamp, given)
                             THEN SnapshotUrl(timestamp, original_url) ELSE given
         IN  IF timestamp = <<>> \/ original_url = <<>>
             THEN ListingEntries(Tail(entries))
             ELSE <<SnapshotRecord(original_url, snapshot_url, timestamp)>>
                  \o ListingEntries(Tail(entries))

\* snapshots.sort(key=lambda snap: snap.timestamp): stable, ascending
RECURSIVE SortByTimestamp(_)
SortByTimestamp(snaps) ==
    IF snaps = <<>> THEN <<>>
    ELSE LET rest == SortByTimestamp(SubSeq(snaps, 1, Len(snaps) - 1))
             x    == snaps[Len(snaps)]
             pos  == Cardinality({k \in DOMAIN rest : ~StrLess(x.timestamp, rest[k].timestamp)})
         IN  SubSeq(rest, 1, pos) \o <<x>> \o SubSeq(rest, pos + 1, Len(rest))

\* the fallback of discover_snapshots on the listing page's crawl result
ListingSnapshots(result, settings) ==
    IF ~result.success \/ result.kind = "none" THEN <<>>
    ELSE IF result.kind = "invalid" \/ ~result.valid THEN <<>>
    ELSE Take(SortByTimestamp(ListingEntries(result.snapshots)),
              settings.wayback_snapshot_limit)

\* extract_contacts_from_snapshot: the notes tag on each extracted contact
TagArchival(contact, timestamp) ==
    [contact EXCEPT !.notes =
        IF Truthy(contact.notes)
        THEN contact.notes \o SourcedFromParen \o timestamp \o CloseParen
        ELSE SourcedFrom \o timestamp]

\* mutation: the snapshot's timestamp is not handed to the page extraction
ExtractContactsFromSnapshotUntimed(business, snapshot, result) ==
    LET found == ExtractContactsFromPage(business, snapshot.snapshot_url, result,
                                         "wayback", None)
    IN  [k \in DOMAIN found |-> TagArchival(found[k], snapshot.timestamp)]

ExtractContactsFromSnapshot(business, snapshot, result) ==
    LET found == ExtractContactsFromPage(business, snapshot.snapshot_url, result,
                                         "wayback", snapshot.timestamp)
    IN  [k \in DOMAIN found |-> TagArchival(found[k], snapshot.timestamp)]

(***************************************************************************)
(* A whole upsert_* call, as run() sees it                                 *)
(***************************************************************************)
\* the table after the row-by-row loop handled the first n entries, and
\* whether every request up to there could succeed
RECURSIVE RowsPrefix(_, _, _, _, _)
RowsPrefix(table, unique, op, entries, n) ==
    IF n = 0 THEN [ok |-> TRUE, table |-> table]
    ELSE LET before == RowsPrefix(table, unique, op, entries, n - 1)
             entry  == entries[n]
         IN  IF ~before.ok THEN before
             ELSE IF RowUpdates(before.table, op, entry)
                  THEN [ok |-> TRUE, table |-> UpdateRows(before.table, op, entry)]
             ELSE IF InsertCanSucceed(before.table, unique, op, entry)
                  THEN [ok |-> TRUE, table |-> InsertRow(before.table, entry)]
             ELSE [ok |-> FALSE, table |-> before.table]

\* every way a call upsert_*(list) on a configured sink can end
UpsertOutcomes(table, unique, op, list) ==
    IF list = <<>> THEN {[raised |-> FALSE, table |-> table]}
    ELSE LET entries == BuildPayload(op, list)
             rows(n) == RowsPrefix(table, unique, op, entries, n)
         IN  {[raised |-> FALSE, table |-> BatchUpsert(table, op, entries)] :
                 x \in {y \in {1} : BatchCanSucceed(table, unique, op, entries)}}
             \cup {[raised |-> TRUE, table |-> table]}
             \cup {[raised |-> n < Len(entries), table |-> rows(n).table] :
                     n \in {m \in 0..Len(entries) : rows(m).ok}}
             \cup {[raised |-> TRUE, table |-> rows(n).table] :
                     n \in {m \in 0..(Len(entries) - 1) : rows(m).ok}}

(***************************************************************************)
(* The web a run crawls                                                    *)
(***************************************************************************)
UrlB    == <<104, 116, 116, 112, 115, 58, 47, 47, 97, 46, 99, 111, 47, 98>>   \* "https://a.co/b"
UrlX    == <<104, 116, 116, 112, 115, 58, 47, 47, 120, 46, 99, 111>>          \* "https://x.co"
Mailto  == <<109, 97, 105, 108, 116, 111, 58, 120, 64, 121, 46, 99, 111>>     \* "mailto:x@y.co"
Ts2024  == <<50, 48, 50, 52, 48, 49, 48, 49>>                         \* "20240101"
Ts2020  == <<50, 48, 50, 48, 48, 49, 48, 49>>                         \* "20200101"
Ts2015  == <<50, 48, 49, 53, 48, 49, 48, 49>>                         \* "20150101"
TsBad   == <<97, 98, 99, 100, 48, 49, 48, 49>>                        \* "abcd0101"
Status200 == <<50, 48, 48>>                                           \* "200"
ListingUrl == <<119, 101, 98, 47, 42, 47, 97, 46, 99, 111>>           \* "web/*/a.co"
MapsUrl2 == <<109, 97, 112, 115, 47, 50>>                             \* "maps/2"

\* PersonPayload(...), site_crawler.py
Person(full_name, emails, phones, notes) ==
    [full_name |-> full_name, position |-> None, emails |-> emails,
     phone_numbers |-> phones, social_links |-> <<>>, location |-> None,
     notes |-> notes]

PersonA == Person(JaneDoe, <<JANEmail>>, <<>>, None)
PersonB == Person(<<>>, <<janeEmail>>, <<PhoneFmt>>, Bio)

Link(url, href, total_score, intrinsic_score) ==
    [url |-> url, href |-> href, total_score |-> total_score,
     intrinsic_score |-> intrinsic_score]

\* what the link-scoring crawl can answer (response.links)
LinkResponses ==
    { [present |-> FALSE, internal |-> <<>>, external |-> <<>>],
      [present |-> TRUE,
       internal |-> << Link(UrlTeam, <<>>, 5, 0), Link(Mailto, <<>>, 9, 0),
                       Link(<<>>, UrlB, 0, 9), Link(UrlTeam, <<>>, 9, 0) >>,
       external |-> << Link(UrlX, <<>>, 0, 0) >>] }

\* what the archive index can answer
ArchiveResponses ==
    { [ok |-> FALSE, data |-> <<>>],
      [ok |-> TRUE,
       data |-> << <<HdrTimestamp, HdrOriginal, HdrStatus>>,
                   <<Ts2024, UrlHome, Status200>>,
                   <<Ts2015, UrlHome, Status200>>,
                   <<TsBad, UrlHome, Status200>>,
                   <<Ts2020, UrlHome, Status200>> >>],
      [ok |-> TRUE,
       data |-> << <<HdrTimestamp, HdrOriginal, HdrStatus>>,
                   <<Ts2015, UrlHome, Status200>> >>] }

SnapshotEntry(original_url, snapshot_url, timestamp) ==
    [original_url |-> original_url, snapshot_url |-> snapshot_url,
     timestamp |-> timestamp]

\* what the crawl of the archive's listing page can answer
ListingResults ==
    { [success |-> FALSE, kind |-> "none", valid |-> FALSE, snapshots |-> <<>>],
      [success |-> TRUE, kind |-> "dict", valid |-> TRUE,
       snapshots |-> << SnapshotEntry(UrlHome, ListingUrl, Ts2024),
                        SnapshotEntry(UrlHome, <<>>, <<>>),
                        SnapshotEntry(UrlHome, SnapshotUrl(Ts2020, UrlHome), Ts2020) >>] }

SettingsChoices ==
    { [max_internal_links |-> 2, max_external_links |-> 1,
       wayback_snapshot_limit |-> 2, wayback_years_back |-> 5, year |-> 2024],
      [max_internal_links |-> 1, max_external_links |-> 1,
       wayback_snapshot_limit |-> 1, wayback_years_back |-> 5, year |-> 2024] }

DiscoveredPool ==
    { Business(AcmeLLC, UrlHome, MapsUrl), Business(Beta, None, MapsUrl2),
      \* another listing under the first one's name, without a website
      Business(AcmeLLC, None, MapsUrl2) }

MaxBusinesses == 2

PageFail    == [success |-> FALSE, kind |-> "none", valid |-> FALSE, chunks |-> <<>>]
PageInvalid == [success |-> TRUE, kind |-> "invalid", valid |-> FALSE, chunks |-> <<>>]
PageDict    == [success |-> TRUE, kind |-> "dict", valid |-> TRUE, chunks |-> <<<<PersonA>>>>]
PageList    == [success |-> TRUE, kind |-> "list", valid |-> TRUE,
                chunks |-> <<<<PersonA>>, <<PersonB>>>>]

PagePhoneOnly == [success |-> TRUE, kind |-> "dict", valid |-> TRUE,
                  chunks |-> <<<<Person(JaneDoe, <<>>, <<PhoneFmt>>, None)>>>>]

\* a list payload whose last chunk is {"people": null}
PageNullPeople == [success |-> TRUE, kind |-> "null_people", valid |-> FALSE,
                   chunks |-> <<<<PersonA>>>>]

\* the sites a run can meet: what each page answers (a page not listed
\* cannot be fetched)
Sites ==
    { {},
      { <<UrlHome, PageDict>>, <<UrlTeam, PageList>>, <<UrlB, PageInvalid>>,
        <<UrlX, PageDict>>, <<SnapshotUrl(Ts2024, UrlHome), PageList>>,
        <<SnapshotUrl(Ts2020, UrlHome), PageDict>> },
      { <<UrlHome, PageList>>, <<UrlTeam, PageDict>>,
        <<SnapshotUrl(Ts2020, UrlHome), PageList>> },
      { <<UrlHome, PageInvalid>>, <<UrlX, PageList>>,
        <<SnapshotUrl(Ts2024, UrlHome), PageDict>> },
      { <<UrlHome, PageDict>>, <<UrlTeam, PageNullPeople>> },
      \* the team page names the same person with a phone number only
      { <<UrlHome, PageDict>>, <<UrlTeam, PagePhoneOnly>> } }

\* an answer is fixed by the first request that needs it and stays the same
\* for the rest of the run
Once(memo, choices) == IF memo = <<>> THEN choices ELSE {memo[1]}

\* crawler.arun(url, extraction) on a site
Fetch(site, url) ==
    IF \E pair \in site : pair[1] = url
    THEN (CHOOSE pair \in site : pair[1] = url)[2]
    ELSE PageFail

(***************************************************************************)
(* LeadHarvestPipeline.run                                                 *)
(***************************************************************************)
\* mutation: every business is crawled
HasWebsiteAlways(business) == TRUE

\* `if business.website:`
HasWebsite(business) == Truthy(business.website)

\* mutation: `and deduped` is missing
ShouldPersistEnabled(enabled, resolved) == enabled

\* mutation: `self.supabase.enabled and` is missing
ShouldPersistNonEmpty(enabled, resolved) == resolved # <<>>

\* `if self.supabase.enabled and deduped:`
ShouldPersist(enabled, resolved) == enabled /\ resolved # <<>>

\* contact_map[name] = value
MapSet(map, name, value) ==
    IF \E k \in DOMAIN map : map[k][1] = name
    THEN [k \in DOMAIN map |-> IF map[k][1] = name THEN <<name, value>> ELSE map[k]]
    ELSE Append(map, <<name, value>>)

\* contact_map[name]
MapGet(map, name) == map[CHOOSE k \in DOMAIN map : map[k][1] = name][2]

Call(stage, url, found) == [stage |-> stage, url |-> url, contacts |-> found]

business == businesses[bizIdx]

InitRun ==
    /\ resolverIdle
    /\ client \in BOOLEAN
    /\ store = [businesses |-> <<>>, contacts |-> <<>>]
    /\ uniqueIndex \in {[businesses |-> TRUE, contacts |-> TRUE],
                        [businesses |-> FALSE, contacts |-> FALSE]}
    /\ stOp = "contacts" /\ stArg = <<>> /\ payload = <<>> /\ entryIdx = 1
    /\ stPc = "idle" /\ storeAtCall = store /\ storeAfterCall = <<>>
    /\ businesses \in Lists(DiscoveredPool, MaxBusinesses)
    /\ max_businesses \in {-1, 1}
    /\ crawl_settings \in SettingsChoices
    /\ bizIdx = 1 /\ runPc = "discovered"
    /\ link_sets = [internal |-> <<>>, external |-> <<>>] /\ linkIdx = 1
    /\ records = <<>> /\ snapshots = <<>> /\ snapIdx = 1 /\ contact_map = <<>>
    /\ web = <<>> /\ siteLinks = <<>> /\ archiveIndex = <<>> /\ archiveListing = <<>>
    /\ extractLog = <<>> /\ persistLog = <<>>
    /\ storeAtBusiness = store

\* businesses = businesses[:max_businesses]
RunTruncate ==
    /\ runPc = "discovered"
    /\ businesses' = IF max_businesses = -1 THEN businesses
                     ELSE Take(businesses, max_businesses)
    /\ runPc' = "upsert_businesses"
    /\ UNCHANGED <<resolveVars, sinkVars, callVars, max_businesses, crawl_settings,
                   bizIdx, link_sets, linkIdx, records, snapshots, snapIdx,
                   contact_map, web, siteLinks, archiveIndex, archiveListing,
                   extractLog, persistLog, storeAtBusiness>>

\* `if self.supabase.enabled: self.supabase.upsert_businesses(businesses)`
RunUpsertBusinesses ==
    /\ runPc = "upsert_businesses"
    /\ IF client
       THEN \E o \in UpsertOutcomes(store.businesses, uniqueIndex.businesses,
                                    "businesses", businesses) :
               /\ store' = [store EXCEPT !.businesses = o.table]
               /\ runPc' = IF o.raised THEN "failed" ELSE "business"
       ELSE store' = store /\ runPc' = "business"
    /\ UNCHANGED <<resolveVars, client, uniqueIndex, callVars, businesses,
                   max_businesses, crawl_settings, bizIdx, link_sets, linkIdx,
                   records, snapshots, snapIdx, contact_map, web, siteLinks,
                   archiveIndex, archiveListing, extractLog, persistLog,
                   storeAtBusiness>>

\* top of the loop body: contacts = []; `if business.website:`
BeginBusiness ==
    /\ runPc = "business"
    /\ bizIdx <= Len(businesses)
    /\ contacts' = <<>>
    /\ runPc' = IF HasWebsite(business) THEN "homepage" ELSE "resolve"
    /\ extractLog' = <<>>
    /\ persistLog' = <<>>
    /\ storeAtBusiness' = store
    \* locals of the previous iteration are dead here
    /\ link_sets' = [internal |-> <<>>, external |-> <<>>]
    /\ linkIdx' = 1 /\ records' = <<>> /\ snapshots' = <<>> /\ snapIdx' = 1
    /\ rawContacts' = <<>> /\ deduped' = <<>>
    /\ UNCHANGED <<merged, nextContact, ddPc, sinkVars, callVars, businesses,
                   max_businesses, crawl_settings, bizIdx, contact_map, web,
                   siteLinks, archiveIndex, archiveListing>>

\* homepage_contacts = extract_contacts_from_page(business.website, INTERNAL)
HomepageExtract ==
    /\ runPc = "homepage"
    /\ \E site \in Once(web, Sites) :
          LET result == Fetch(site, business.website)
              found  == ExtractContactsFromPage(business, business.website, result,
                                                "internal", None)
          IN  /\ contacts' = contacts \o found
              /\ extractLog' = Append(extractLog, Call("homepage", business.website, found))
              /\ web' = <<site>>
              /\ runPc' = IF ExtractionRaises(result) THEN "crashed" ELSE "link_score"
    /\ UNCHANGED <<rawContacts, merged, nextContact, deduped, ddPc, sinkVars, callVars,
                   businesses, max_businesses, crawl_settings, bizIdx, link_sets,
                   linkIdx, records, snapshots, snapIdx, contact_map, siteLinks,
                   archiveIndex, archiveListing, persistLog, storeAtBusiness>>

\* link_sets = score_site_links(business, crawler)
LinkScore ==
    /\ runPc = "link_score"
    /\ \E response \in Once(siteLinks, LinkResponses) :
          /\ link_sets' = SplitLinks(response, crawl_settings)
          /\ siteLinks' = <<response>>
    /\ extractLog' = Append(extractLog, Call("link_score", business.website, <<>>))
    /\ records' = <<>>
    /\ linkIdx' = 1
    /\ runPc' = "internal"
    /\ UNCHANGED <<resolveVars, sinkVars, callVars, businesses, max_businesses,
                   crawl_settings, bizIdx, snapshots, snapIdx, contact_map, web,
                   archiveIndex, archiveListing, persistLog, storeAtBusiness>>

\* crawl_contact_surfaces: one pass of a loop, or the step to what follows it
CrawlSurfaces ==
    /\ runPc \in {"internal", "external"}
    /\ LET links == link_sets[runPc]
       IN  IF linkIdx <= Len(links)
           THEN /\ \E site \in Once(web, Sites) :
                      LET result == Fetch(site, links[linkIdx])
                          found  == ExtractContactsFromPage(business, links[linkIdx],
                                                            result, runPc, None)
                      IN  /\ records' = records \o found
                          /\ extractLog' = Append(extractLog,
                                                  Call(runPc, links[linkIdx], found))
                          /\ web' = <<site>>
                          /\ runPc' = IF ExtractionRaises(result) THEN "crashed" ELSE runPc
                /\ linkIdx' = linkIdx + 1
                /\ UNCHANGED contacts
           ELSE /\ linkIdx' = 1
                /\ runPc' = IF runPc = "internal" THEN "external" ELSE "snapshot_discover"
                \* contacts.extend(surface_contacts), once both loops are done
                /\ contacts' = IF runPc = "external" THEN contacts \o records ELSE contacts
                /\ UNCHANGED <<records, extractLog, web>>
    /\ UNCHANGED <<rawContacts, merged, nextContact, deduped, ddPc, sinkVars, callVars,
                   businesses, max_businesses, crawl_settings, bizIdx, link_sets,
                   snapshots, snapIdx, contact_map, siteLinks, archiveIndex,
                   archiveListing, persistLog, storeAtBusiness>>

\* discover_snapshots: the index query, which is returned when it is non-empty
DiscoverFromIndex ==
    /\ runPc = "snapshot_discover"
    /\ \E response \in Once(archiveIndex, ArchiveResponses) :
          LET api_snapshots == ApiSnapshotLookup(response, crawl_settings)
          IN  /\ archiveIndex' = <<response>>
              /\ snapshots' = api_snapshots
              /\ runPc' = IF IndexAuthoritative(api_snapshots) THEN "snapshot_extract"
                          ELSE "snapshot_fallback"
    /\ extractLog' = Append(extractLog, Call("index", business.website, <<>>))
    /\ snapIdx' = 1
    /\ UNCHANGED <<resolveVars, sinkVars, callVars, businesses, max_businesses,
                   crawl_settings, bizIdx, link_sets, linkIdx, records, contact_map,
                   web, siteLinks, archiveListing, persistLog, storeAtBusiness>>

\* discover_snapshots: the crawl of the listing page
DiscoverFallback ==
    /\ runPc = "snapshot_fallback"
    /\ \E result \in Once(archiveListing, ListingResults) :
          /\ archiveListing' = <<result>>
          /\ snapshots' = ListingSnapshots(result, crawl_settings)
    /\ extractLog' = Append(extractLog, Call("listing", business.website, <<>>))
    /\ snapIdx' = 1
    /\ runPc' = "snapshot_extract"
    /\ UNCHANGED <<resolveVars, sinkVars, callVars, businesses, max_businesses,
                   crawl_settings, bizIdx, link_sets, linkIdx, records, contact_map,
                   web, siteLinks, archiveIndex, persistLog, storeAtBusiness>>

\* one pass of `for snapshot in snapshots`, or the step to the resolver
SnapshotExtract ==
    /\ runPc = "snapshot_extract"
    /\ IF snapIdx <= Len(snapshots)
       THEN /\ \E site \in Once(web, Sites) :
                  LET result == Fetch(site, snapshots[snapIdx].snapshot_url)
                      found  == ExtractContactsFromSnapshot(business, snapshots[snapIdx],
                                                            result)
                  IN  /\ contacts' = contacts \o found
                      /\ extractLog' = Append(extractLog,
                             Call("wayback", snapshots[snapIdx].snapshot_url, found))
                      /\ web' = <<site>>
                      /\ runPc' = IF ExtractionRaises(result) THEN "crashed" ELSE runPc
            /\ snapIdx' = snapIdx + 1
       ELSE /\ runPc' = "resolve"
            /\ UNCHANGED <<contacts, extractLog, web, snapIdx>>
    /\ UNCHANGED <<rawContacts, merged, nextContact, deduped, ddPc, sinkVars, callVars,
                   businesses, max_businesses, crawl_settings, bizIdx, link_sets,
                   linkIdx, records, snapshots, contact_map, siteLinks, archiveIndex,
                   archiveListing, persistLog, storeAtBusiness>>

\* deduped = _deduplicate_contacts(contacts); contact_map[business.name] = deduped
Resolve ==
    /\ runPc = "resolve"
    /\ rawContacts' = contacts
    /\ deduped' = DeduplicateContacts(contacts)
    /\ contacts' = DedupObjects(contacts)
    /\ contact_map' = MapSet(contact_map, business.name, deduped')
    /\ runPc' = "persist"
    /\ UNCHANGED <<merged, nextContact, ddPc, sinkVars, callVars, businesses,
                   max_businesses, crawl_settings, bizIdx, link_sets, linkIdx, records,
                   snapshots, snapIdx, web, siteLinks, archiveIndex, archiveListing,
                   extractLog, persistLog, storeAtBusiness>>

\* `if self.supabase.enabled and deduped: self.supabase.upsert_contacts(deduped)`
Persist ==
    /\ runPc = "persist"
    /\ IF ShouldPersist(client, deduped)
       THEN /\ persistLog' = Append(persistLog, deduped)
            /\ \E o \in UpsertOutcomes(store.contacts, uniqueIndex.contacts,
                                       "contacts", deduped) :
                  /\ store' = [store EXCEPT !.contacts = o.table]
                  /\ runPc' = IF o.raised THEN "failed" ELSE "next"
       ELSE /\ runPc' = "next"
            /\ UNCHANGED <<persistLog, store>>
    /\ UNCHANGED <<resolveVars, client, uniqueIndex, callVars, businesses,
                   max_businesses, crawl_settings, bizIdx, link_sets, linkIdx, records,
                   snapshots, snapIdx, contact_map, web, siteLinks, archiveIndex,
                   archiveListing, extractLog, storeAtBusiness>>

\* the loop goes on to the next business
NextBusiness ==
    /\ runPc = "next"
    /\ bizIdx' = bizIdx + 1
    /\ runPc' = "business"
    /\ UNCHANGED <<resolveVars, sinkVars, callVars, businesses, max_businesses,
                   crawl_settings, link_sets, linkIdx, records, snapshots, snapIdx,
                   contact_map, web, siteLinks, archiveIndex, archiveListing,
                   extractLog, persistLog, storeAtBusiness>>

\* return contact_map
RunReturn ==
    /\ runPc = "business"
    /\ bizIdx > Len(businesses)
    /\ runPc' = "done"
    /\ UNCHANGED <<resolveVars, sinkVars, callVars, businesses, max_businesses,
                   crawl_settings, bizIdx, link_sets, linkIdx, records, snapshots,
                   snapIdx, contact_map, web, siteLinks, archiveIndex, archiveListing,
                   extractLog, persistLog, storeAtBusiness>>

NextRun ==
    \/ RunTruncate \/ RunUpsertBusinesses \/ BeginBusiness \/ HomepageExtract
    \/ LinkScore \/ CrawlSurfaces \/ DiscoverFromIndex \/ DiscoverFallback
    \/ SnapshotExtract \/ Resolve \/ Persist \/ NextBusiness \/ RunReturn

SpecRun == InitRun /\ [][NextRun]_vars

(***************************************************************************)
(* discover_snapshots on its own, over the answers the archive can give    *)
(***************************************************************************)
TsNone == <<>>                       \* a row without a timestamp

IndexHeader == <<HdrTimestamp, HdrOriginal, HdrStatus>>

IndexRowPool ==
    { <<Ts2024, UrlHome, Status200>>,
      <<Ts2015, UrlHome, Status200>>,
      <<Ts2020, UrlHome, Status200>>,
      <<TsBad, UrlHome, Status200>>,        \* the year does not parse
      <<TsNone, UrlHome, Status200>>,       \* no timestamp
      <<Ts2020, <<>>, Status200>>,          \* no original URL
      <<Ts2020>> }                          \* a short row

MaxRows == 3

IndexAnswers ==
    { [ok |-> FALSE, data |-> <<>>],
      [ok |-> TRUE, data |-> <<>>],
      [ok |-> TRUE, data |-> << <<HdrOriginal, HdrStatus>>, <<UrlHome, Status200>> >>] }
    \cup { [ok |-> TRUE, data |-> <<IndexHeader>> \o rows] :
              rows \in Lists(IndexRowPool, MaxRows) }

UrlWild == <<97, 46, 99, 111, 47, 42>>                                \* "a.co/*"

ListingEntryPool ==
    { SnapshotEntry(UrlHome, ListingUrl, Ts2024),                    \* a listing URL
      SnapshotEntry(UrlHome, SnapshotUrl(Ts2020, UrlHome), Ts2020),
      SnapshotEntry(UrlHome, <<>>, Ts2015),
      SnapshotEntry(UrlHome, <<>>, TsBad),                           \* the year does not parse
      SnapshotEntry(UrlHome, <<>>, TsNone),                          \* no timestamp
      SnapshotEntry(<<>>, <<>>, Ts2020),                             \* no original URL
      SnapshotEntry(UrlWild, ListingUrl, Ts2024) }                   \* a prefix query as original

MaxEntries == 2

ListingAnswers ==
    { [success |-> FALSE, kind |-> "none", valid |-> FALSE, snapshots |-> <<>>],
      [success |-> TRUE, kind |-> "invalid", valid |-> FALSE, snapshots |-> <<>>] }
    \cup { [success |-> TRUE, kind |-> "dict", valid |-> TRUE, snapshots |-> entries] :
              entries \in Lists(ListingEntryPool, MaxEntries) }

MaxLimit == 2

DiscoverSettings ==
    { [max_internal_links |-> 15, max_external_links |-> 10,
       wayback_snapshot_limit |-> limit, wayback_years_back |-> 5, year |-> 2024] :
         limit \in 0..MaxLimit }

\* discover_snapshots(business.website, crawler) is about to be called; the
\* archive's answers are fixed beforehand
InitDiscover ==
    /\ resolverIdle
    /\ sinkIdle
    /\ businesses = <<Business(AcmeLLC, UrlHome, MapsUrl)>>
    /\ max_businesses = -1
    /\ crawl_settings \in DiscoverSettings
    /\ bizIdx = 1 /\ runPc = "snapshot_discover"
    /\ link_sets = [internal |-> <<>>, external |-> <<>>] /\ linkIdx = 1
    /\ records = <<>> /\ snapshots = <<>> /\ snapIdx = 1 /\ contact_map = <<>>
    /\ web = <<>> /\ siteLinks = <<>>
    /\ \/ /\ archiveIndex \in {<<answer>> : answer \in IndexAnswers}
          /\ archiveListing = <<[success |-> FALSE, kind |-> "none", valid |-> FALSE,
                                 snapshots |-> <<>>]>>
       \/ /\ archiveIndex \in {<<[ok |-> FALSE, data |-> <<>>]>>,
                               <<[ok |-> TRUE,
                                  data |-> <<IndexHeader, <<Ts2015, UrlHome, Status200>> >>]>>}
          /\ archiveListing \in {<<answer>> : answer \in ListingAnswers}
    /\ extractLog = <<>> /\ persistLog = <<>>
    /\ storeAtBusiness = store

NextDiscover == DiscoverFromIndex \/ DiscoverFallback

SpecDiscover == InitDiscover /\ [][NextDiscover]_vars

(***************************************************************************)
(* Properties of the resolver                                              *)
(***************************************************************************)
\* C1: the list _deduplicate_contacts returns holds no two contacts with the
\* same signature, the signature being computed on the returned records.
C1_DistinctSignatures ==
    ddPc = "done" =>
        \A a, b \in DOMAIN deduped :
            a # b => ContactSignature(deduped[a]) # ContactSignature(deduped[b])

\* a run that merged one record into a base and returned two contacts
C1_Witness ==
    /\ ddPc = "done"
    /\ Len(deduped) = 2
    /\ Len(rawContacts) = 3
    /\ \E k \in DOMAIN contacts : contacts[k] # rawContacts[k]

\* C2 as stated: the homepage and the team-page observation of Jane Doe are
\* resolved into one contact "Jane Doe" with emails ["jane@acme.com"] and
\* phones ["2125550100"].
C2_ScenarioOneContact ==
    (ddPc = "done" /\ rawContacts = <<HomepageJane, TeamPageJane>>) =>
        /\ Len(deduped) = 1
        /\ deduped[1].person_name = JaneDoe
        /\ deduped[1].emails = <<janeEmail>>
        /\ deduped[1].phone_numbers = <<PhoneRaw>>

\* C2 amended: the two observations have different signatures (name component
\* "janedoe" against "jane@acme.com", phone key empty against one number), so
\* both are returned, each with its raw field values, in input order.
C2_ScenarioTwoContacts ==
    (ddPc = "done" /\ rawContacts = <<HomepageJane, TeamPageJane>>) =>
        /\ Len(deduped) = 2
        /\ deduped[1].person_name = JaneDoe
        /\ deduped[1].emails = <<JANEmail>>
        /\ deduped[1].phone_numbers = <<>>
        /\ deduped[2].person_name = <<>>
        /\ deduped[2].emails = <<janeEmail>>
        /\ deduped[2].phone_numbers = <<PhoneFmt>>

C2_Witness ==
    ddPc = "done" /\ rawContacts = <<HomepageJane, TeamPageJane>>

\* C3: resolving [r, r] returns exactly one contact, equal in every field to
\* the contact returned for [r]; notes and source URL are not duplicated.
C3_MergeIdempotent ==
    (ddPc = "done" /\ Len(rawContacts) = 2 /\ rawContacts[1] = rawContacts[2]) =>
        /\ Len(deduped) = 1
        /\ deduped = DeduplicateContacts(<<rawContacts[1]>>)
        /\ deduped[1] = rawContacts[1]

\* [r, r] was resolved for a record with notes and a source URL
C3_Witness ==
    /\ ddPc = "done"
    /\ Len(rawContacts) = 2
    /\ rawContacts[1] = rawContacts[2]
    /\ Truthy(rawContacts[1].notes)
    /\ rawContacts[1].source_url # <<>>
    /\ rawContacts[1].emails # <<>>

SameSignaturePair ==
    /\ ddPc = "done"
    /\ Len(rawContacts) = 2
    /\ ContactSignature(rawContacts[1]) = ContactSignature(rawContacts[2])

Swapped == <<rawContacts[2], rawContacts[1]>>

\* the non-empty items of a list, compared case-insensitively
LoweredItems(list) == {lower(x) : x \in {y \in Range(list) : y # <<>>}}

\* C4 as stated: for two records with the same signature, [A, B] and [B, A]
\* each resolve to one contact and the two contacts have the same set of
\* emails, of phone numbers and of social links.
C4_SameRawSets ==
    SameSignaturePair =>
        LET other == DeduplicateContacts(Swapped)
        IN  /\ Len(deduped) = 1
            /\ Len(other) = 1
            /\ Range(deduped[1].emails) = Range(other[1].emails)
            /\ Range(deduped[1].phone_numbers) = Range(other[1].phone_numbers)
            /\ Range(deduped[1].social_links) = Range(other[1].social_links)

\* C4 amended: [A, B] and [B, A] each resolve to one contact, and the two
\* contacts hold the same non-empty emails, phone numbers and social links
\* when the items are compared case-insensitively.
C4_SameLoweredSets ==
    SameSignaturePair =>
        LET other == DeduplicateContacts(Swapped)
        IN  /\ Len(deduped) = 1
            /\ Len(other) = 1
            /\ LoweredItems(deduped[1].emails) = LoweredItems(other[1].emails)
            /\ LoweredItems(deduped[1].phone_numbers) = LoweredItems(other[1].phone_numbers)
            /\ LoweredItems(deduped[1].social_links) = LoweredItems(other[1].social_links)

\* two different records of one signature whose phone lists differ as strings
C4_Witness ==
    /\ SameSignaturePair
    /\ rawContacts[1] # rawContacts[2]
    /\ LoweredItems(rawContacts[1].phone_numbers) # LoweredItems(rawContacts[2].phone_numbers)
    /\ Len(deduped[1].phone_numbers) = 2

\* the record the k-th dict entry was keyed from, as it was passed in
KeyedRecord(k) == rawContacts[merged[k][2]]

\* two inputs that differ in their blank names and agree on the e-mail key
\* and on every other signature field
BlankNamePair ==
    /\ ddPc = "done"
    /\ Len(rawContacts) = 2
    /\ rawContacts[1].person_name # rawContacts[2].person_name
    /\ NormalizeName(rawContacts[1].person_name) = <<>>
    /\ NormalizeName(rawContacts[2].person_name) = <<>>
    /\ NormalizeEmails(rawContacts[1].emails) # <<>>
    /\ \A f \in {1, 3, 4, 5, 6, 7, 8} :
          ContactSignature(rawContacts[1])[f] = ContactSignature(rawContacts[2])[f]

\* C5 as stated: a record with an empty name key and a non-empty email list
\* is keyed by the first element of its email key (with no email but a phone
\* key, by the first element of the phone key), and two records with
\* different blank names and the same email are resolved into one contact.
C5_FallbackFirstEmail ==
    /\ \A k \in DOMAIN merged :
          LET r == KeyedRecord(k)
              signature == merged[k][1]
          IN  NormalizeName(r.person_name) = <<>> =>
                /\ r.emails # <<>> =>
                      (signature[3] # <<>> /\ signature[2] = signature[3][1])
                /\ (r.emails = <<>> /\ signature[4] # <<>>) =>
                      signature[2] = signature[4][1]
    /\ BlankNamePair => Len(deduped) = 1

\* C5 amended: with an empty name key, the name component is the first
\* element of the email key when that key is non-empty and its first element
\* is not the empty string; otherwise it is the first element of the phone
\* key when that key is non-empty, and "" when it is empty too.  Two records
\* with different blank names, the same email key and otherwise equal
\* signature fields are resolved into one contact.
C5_FallbackNonBlankEmail ==
    /\ \A k \in DOMAIN merged :
          LET r == KeyedRecord(k)
              signature == merged[k][1]
              byEmail == signature[3] # <<>> /\ signature[3][1] # <<>>
          IN  NormalizeName(r.person_name) = <<>> =>
                /\ byEmail => signature[2] = signature[3][1]
                /\ (~byEmail /\ signature[4] # <<>>) => signature[2] = signature[4][1]
                /\ (~byEmail /\ signature[4] = <<>>) => signature[2] = <<>>
    /\ BlankNamePair => Len(deduped) = 1

\* a "" and a " " name with the same address in other letter case were merged
C5_Witness ==
    /\ BlankNamePair
    /\ rawContacts[1].emails # rawContacts[2].emails
    /\ Len(deduped) = 1
    /\ merged[1][1][2] = janeEmail

(***************************************************************************)
(* Properties of the orchestrator                                          *)
(***************************************************************************)
CallsOf(stage) == SelectSeq(extractLog, LAMBDA c : c.stage = stage)
UrlsOf(calls)  == [k \in DOMAIN calls |-> calls[k].url]
FoundBy(calls) == Flatten([k \in DOMAIN calls |-> calls[k].contacts])

StageRank(stage) ==
    CASE stage = "homepage"   -> 1
      [] stage = "link_score" -> 2
      [] stage = "internal"   -> 3
      [] stage = "external"   -> 4
      [] stage = "index"      -> 5
      [] stage = "listing"    -> 6
      [] stage = "wayback"    -> 7

\* the resolver has just been handed the raw list of a business with a website
ResolvedWithWebsite == runPc = "persist" /\ Truthy(business.website)

\* the raw list is the stages' contacts, stage after stage, each stage in
\* the order of its links or snapshots
StagesInOrder ==
    /\ \A i, j \in DOMAIN extractLog :
          i < j => StageRank(extractLog[i].stage) <= StageRank(extractLog[j].stage)
    /\ UrlsOf(CallsOf("homepage")) = <<business.website>>
    /\ UrlsOf(CallsOf("internal")) = link_sets.internal
    /\ UrlsOf(CallsOf("external")) = link_sets.external
    /\ UrlsOf(CallsOf("wayback")) = [k \in DOMAIN snapshots |-> snapshots[k].snapshot_url]
    /\ rawContacts = FoundBy(CallsOf("homepage")) \o FoundBy(CallsOf("internal"))
                        \o FoundBy(CallsOf("external")) \o FoundBy(CallsOf("wayback"))

OldestFirst(snaps) ==
    \A i, j \in DOMAIN snaps : i < j => ~StrLess(snaps[j].timestamp, snaps[i].timestamp)

\* C6: for a business with a website the list handed to the resolver is the
\* homepage's contacts, then those of each prioritized internal link, then
\* those of each prioritized external link, then those of each snapshot,
\* the snapshots being taken oldest first.
C6_StagesInOrderOldestFirst ==
    ResolvedWithWebsite => (StagesInOrder /\ OldestFirst(snapshots))

\* the same without the order of the snapshots among themselves
C6_StagesInOrder == ResolvedWithWebsite => StagesInOrder

\* the persistence step of the current business is over
Persisted == runPc = "next"

\* no upsert_contacts call is made for a business before it is resolved
NoCallBeforeResolution ==
    runPc \in {"homepage", "link_score", "internal", "external", "snapshot_discover",
               "snapshot_fallback", "snapshot_extract", "resolve", "persist"}
        => persistLog = <<>>

\* C7 as stated: upsert_contacts is called exactly once, with the resolved
\* list, when that list is non-empty, never when it is empty, and never
\* before the resolution.
C7_OncePerNonEmptyList ==
    /\ NoCallBeforeResolution
    /\ Persisted => persistLog = IF deduped # <<>> THEN <<deduped>> ELSE <<>>

\* C7: upsert_contacts is called exactly once, with the resolved list, when
\* the sink is enabled and that list is non-empty; it is never called when
\* the list is empty or the sink is disabled, and never before the
\* resolution.
C7_OncePerNonEmptyListWhenEnabled ==
    /\ NoCallBeforeResolution
    /\ Persisted => persistLog = IF client /\ deduped # <<>> THEN <<deduped>> ELSE <<>>

C7_Witness ==
    /\ Persisted /\ client /\ Len(deduped) >= 2 /\ persistLog = <<deduped>>
    /\ store.contacts # storeAtBusiness.contacts

\* a business without a website has reached the resolver without any
\* extraction call, with an empty list, and is mapped to an empty list
ShortCircuit ==
    /\ runPc = "resolve" => (extractLog = <<>> /\ contacts = <<>>)
    /\ runPc \in {"persist", "next"} =>
          /\ extractLog = <<>>
          /\ rawContacts = <<>>
          /\ MapGet(contact_map, business.name) = <<>>

NoWebsite == runPc \in {"resolve", "persist", "next"} /\ ~Truthy(business.website)

\* C8 as stated: a business without a website goes straight to the
\* resolver with an empty list, is mapped to an empty list, and its
\* persistence call is made with zero contacts and writes nothing.
C8_ShortCircuitEmptyCall ==
    NoWebsite => /\ ShortCircuit
                 /\ Persisted => (persistLog = << <<>> >> /\ store = storeAtBusiness)

\* C8: a business without a website goes straight to the resolver with an
\* empty list, is mapped to an empty list, and no persistence call is made
\* for it, so nothing is written.
C8_ShortCircuitNoCall ==
    NoWebsite => /\ ShortCircuit
                 /\ Persisted => (persistLog = <<>> /\ store = storeAtBusiness)

C8_Witness ==
    /\ NoWebsite /\ Persisted /\ client /\ bizIdx = 2
    /\ contact_map = << <<AcmeLLC, deduped>>, <<Beta, <<>> >> >>

(***************************************************************************)
(* Properties of the persistence calls                                     *)
(***************************************************************************)
\* C9: when upsert_contacts ends in a fatal error, the call has written no
\* entry of its list: the table is as it was when the call began, on the
\* batch path and on the row-by-row path alike.
C9_FatalWritesNothing ==
    (stOp = "contacts" /\ stPc = "raised") => store = storeAtCall

\* C10: calling upsert_businesses twice with the same list leaves the table
\* with the same rows as calling it once, for every list (empty map-listing
\* URLs included), on the batch path and on the row-by-row path.
C10_BusinessesIdempotent ==
    (stOp = "businesses" /\ Len(storeAfterCall) = 2) =>
        storeAfterCall[2] = storeAfterCall[1]

\* the rows of a table that carry the natural key of an entry
RowsKeyed(table, op, entry) ==
    {k \in DOMAIN table : ConflictKey(op, table[k]) = ConflictKey(op, entry)}

ReconcilesByKey ==
    /\ (stPc = "batch" /\ stPc' = "rows") => (entryIdx' = 1 /\ store' = store)
    /\ (stPc = "rows" /\ entryIdx' # entryIdx) =>
          /\ entryIdx' = entryIdx + 1
          /\ store'[stOp] = IF Existing(store[stOp], stOp, payload[entryIdx])
                            THEN UpdateRows(store[stOp], stOp, payload[entryIdx])
                            ELSE InsertRow(store[stOp], payload[entryIdx])
    /\ (stPc = "rows" /\ stPc' = "returned") => (entryIdx > Len(payload) /\ store' = store)
    /\ (stPc = "batch" /\ stPc' = "raised") => (entryIdx' = entryIdx /\ store' = store)

\* C12: after a conflict on the batch upsert either operation handles the
\* payload row by row in order, updating the stored row of the same natural
\* key when there is one and inserting otherwise, and returns when every
\* row succeeded; any other batch failure is raised with no row handled.
C12_Reconciliation == [][ReconcilesByKey]_vars

\* the same for upsert_contacts alone
C12_ReconciliationOfContacts == [][stOp = "contacts" => ReconcilesByKey]_vars

(***************************************************************************)
(* score_site_links on its own, over the link lists a page can have       *)
(***************************************************************************)
UrlC == <<104, 116, 116, 112, 115, 58, 47, 47, 97, 46, 99, 111, 47, 99>>  \* "https://a.co/c"

InternalLinkPool ==
    { Link(UrlTeam, <<>>, 9, 0),
      Link(UrlB, <<>>, 5, 0),
      Link(UrlC, <<>>, 9, 0),
      Link(Mailto, <<>>, 9, 0),        \* not http(s)
      Link(UrlTeam, <<>>, 5, 0),       \* the first URL again, other score
      Link(<<>>, UrlB, 0, 9) }         \* href and intrinsic_score only

MaxLinks == 3
MaxCap == 2

ExternalLinkChoices ==
    { <<>>,
      << Link(UrlX, <<>>, 0, 0) >>,
      << Link(UrlX, <<>>, 0, 0), Link(Mailto, <<>>, 9, 0), Link(UrlTeam, <<>>, 9, 0),
         Link(UrlX, <<>>, 9, 0) >> }

LinkAnswers ==
    { [present |-> FALSE, internal |-> <<>>, external |-> <<>>] }
    \cup { [present |-> TRUE, internal |-> internal, external |-> external] :
              internal \in Lists(InternalLinkPool, MaxLinks),
              external \in ExternalLinkChoices }

LinkSettings ==
    { [max_internal_links |-> internal, max_external_links |-> external,
       wayback_snapshot_limit |-> 5, wayback_years_back |-> 5, year |-> 2024] :
         internal \in 0..MaxCap, external \in {0, 1} }

\* score_site_links(business, crawler) is about to be called; the links of
\* the page are fixed beforehand
InitLinks ==
    /\ resolverIdle
    /\ sinkIdle
    /\ businesses = <<Business(AcmeLLC, UrlHome, MapsUrl)>>
    /\ max_businesses = -1
    /\ crawl_settings \in LinkSettings
    /\ bizIdx = 1 /\ runPc = "link_score"
    /\ link_sets = [internal |-> <<>>, external |-> <<>>] /\ linkIdx = 1
    /\ records = <<>> /\ snapshots = <<>> /\ snapIdx = 1 /\ contact_map = <<>>
    /\ web = <<>> /\ siteLinks \in {<<answer>> : answer \in LinkAnswers}
    /\ archiveIndex = <<>> /\ archiveListing = <<>>
    /\ extractLog = <<>> /\ persistLog = <<>>
    /\ storeAtBusiness = store

NextLinks == LinkScore

SpecLinks == InitLinks /\ [][NextLinks]_vars

(***************************************************************************)
(* Properties of link prioritisation                                       *)
(***************************************************************************)
\* the URL and the score a link carries
LinkUrl(link) == IF link.url # <<>> THEN link.url ELSE link.href
LinkScoreOf(link) == IF link.total_score # 0 THEN link.total_score ELSE link.intrinsic_score

\* the reference: the http(s) links that are the first of their URL ...
Kept(links) ==
    SelectSeq([k \in DOMAIN links |-> <<k, links[k]>>],
              LAMBDA e :
                 /\ \/ StartsWith(LinkUrl(e[2]), HttpPrefix)
                    \/ StartsWith(LinkUrl(e[2]), HttpsPrefix)
                 /\ \A j \in 1..(e[1] - 1) : LinkUrl(links[j]) # LinkUrl(e[2]))

\* ... each at the place its score gives it, links of equal score in input
\* order ...
PlaceOf(kept, i) ==
    1 + Cardinality({j \in DOMAIN kept : LinkScoreOf(kept[j][2]) > LinkScoreOf(kept[i][2])})
      + Cardinality({j \in 1..(i - 1) : LinkScoreOf(kept[j][2]) = LinkScoreOf(kept[i][2])})

\* ... cut to the cap
Prioritized(links, cap) ==
    LET kept   == Kept(links)
        placed == [p \in DOMAIN kept |->
                     LinkUrl(kept[CHOOSE i \in DOMAIN kept : PlaceOf(kept, i) = p][2])]
    IN  SubSeq(placed, 1, IF cap < Len(placed) THEN cap ELSE Len(placed))

\* score_site_links has returned `link_sets`
LinksReturned == runPc = "internal"

\* a, b, c with scores 0.9, 0.5, 0.9 and a cap of 2
TieScenario ==
    /\ siteLinks[1].present
    /\ siteLinks[1].internal =
          << Link(UrlTeam, <<>>, 9, 0), Link(UrlB, <<>>, 5, 0), Link(UrlC, <<>>, 9, 0) >>
    /\ crawl_settings.max_internal_links = 2

\* C18: each list the prioritizer returns is the reference list: http(s)
\* URLs only, first occurrence of a URL, descending by score with equal
\* scores in input order, cut to the cap, internal and external each on
\* their own; a, b, c with 0.9, 0.5, 0.9 and a cap of 2 give [a, c].
C18_PrioritizerIsReference ==
    (LinksReturned /\ siteLinks[1].present) =>
        /\ link_sets.internal = Prioritized(siteLinks[1].internal,
                                            crawl_settings.max_internal_links)
        /\ link_sets.external = Prioritized(siteLinks[1].external,
                                            crawl_settings.max_external_links)
        /\ TieScenario => link_sets.internal = <<UrlTeam, UrlC>>

C18_Witness ==
    /\ LinksReturned /\ TieScenario /\ link_sets.internal = <<UrlTeam, UrlC>>
    /\ link_sets.external = <<UrlTeam>>

(***************************************************************************)
(* Properties of snapshot discovery                                        *)
(***************************************************************************)
\* discover_snapshots has returned `snapshots`
DiscoverReturned == runPc = "snapshot_extract"

\* what the index query yields on the answer the archive gave
IndexYield == ApiSnapshotLookup(archiveIndex[1], crawl_settings)

FromIndex == DiscoverReturned /\ CallsOf("listing") = <<>>
FromListing == DiscoverReturned /\ CallsOf("listing") # <<>>

\* C13: the index is queried first; when it yields a snapshot its result is
\* returned and the listing page is never crawled; the listing page is
\* crawled only when the index yields nothing.
C13_IndexFirst ==
    /\ \A k \in DOMAIN extractLog :
          extractLog[k].stage = "listing" =>
              /\ \E j \in 1..(k - 1) : extractLog[j].stage = "index"
              /\ IndexYield = <<>>
    /\ DiscoverReturned =>
          /\ Len(CallsOf("index")) = 1
          /\ IF IndexYield # <<>>
             THEN CallsOf("listing") = <<>> /\ snapshots = IndexYield
             ELSE Len(CallsOf("listing")) = 1

C13_Witness == FromIndex /\ Len(snapshots) = 2

\* C14: the list discover_snapshots returns is sorted ascending by
\* timestamp, whichever tier produced it and whatever the order of the rows
\* delivered.
C14_ReturnedOldestFirst == DiscoverReturned => OldestFirst(snapshots)

\* the same for the fallback tier alone
C14_ListingOldestFirst == FromListing => OldestFirst(snapshots)

\* C15: the list discover_snapshots returns never has more entries than the
\* configured limit, for every limit from 0 on.
C15_WithinLimit ==
    DiscoverReturned => Len(snapshots) <= crawl_settings.wayback_snapshot_limit

\* the same for the limits from 1 on
C15_WithinPositiveLimit ==
    (DiscoverReturned /\ crawl_settings.wayback_snapshot_limit >= 1)
        => Len(snapshots) <= crawl_settings.wayback_snapshot_limit

Timestamps(snaps) == [k \in DOMAIN snaps |-> snaps[k].timestamp]

\* the index delivered the captures of 2015, 2020 and 2024, in this order
CutoffScenario ==
    /\ archiveIndex[1].ok
    /\ archiveIndex[1].data = << IndexHeader, <<Ts2015, UrlHome, Status200>>,
                                 <<Ts2020, UrlHome, Status200>>,
                                 <<Ts2024, UrlHome, Status200>> >>
    /\ crawl_settings.wayback_snapshot_limit >= 2

\* C16: the index tier keeps a capture only if its year is at or after the
\* current year minus years_back; of the captures of 2015, 2020 and 2024
\* with years_back 5, year 2024 and a limit of 2 or more, exactly those of
\* 2020 and 2024 are kept.
C16_Cutoff ==
    FromIndex =>
        /\ \A k \in DOMAIN snapshots :
              ParseYear(snapshots[k].timestamp)
                  >= crawl_settings.year - crawl_settings.wayback_years_back
        /\ CutoffScenario => Timestamps(snapshots) = <<Ts2020, Ts2024>>

C16_Witness == FromIndex /\ CutoffScenario /\ Len(snapshots) = 2

WellFormed(snapshot) ==
    /\ snapshot.timestamp # <<>>
    /\ snapshot.original_url # <<>>
    /\ ParseYear(snapshot.timestamp) # -1

\* C17: every snapshot discover_snapshots returns, from either tier, has a
\* timestamp, an original URL and a year that parses; the rows without them
\* are dropped and the others are returned.
C17_ReturnedWellFormed ==
    DiscoverReturned => \A k \in DOMAIN snapshots : WellFormed(snapshots[k])

\* the same for the index tier alone
C17_IndexWellFormed ==
    FromIndex => \A k \in DOMAIN snapshots : WellFormed(snapshots[k])

(***************************************************************************)
(* Properties of the run under extraction misses and without a sink        *)
(***************************************************************************)
PageStages == {"homepage", "internal", "external", "wayback"}

PageCalls == SelectSeq(extractLog, LAMBDA c : c.stage \in PageStages)

\* an extraction miss: the fetch failed, the payload is absent or does not
\* parse, or it fails the schema
Miss(result) ==
    \/ ~result.success
    \/ result.kind \in {"none", "invalid"}
    \/ ~result.valid

\* every surface that was a miss gave no contact
MissesAreEmpty ==
    \A k \in DOMAIN extractLog :
        (extractLog[k].stage \in PageStages /\ Miss(Fetch(web[1], extractLog[k].url)))
            => extractLog[k].contacts = <<>>

\* what the surfaces gave so far is all there, in the list of the business
\* or in the list crawl_contact_surfaces is still building
AccumulatedKept ==
    runPc \in {"link_score", "internal", "external", "snapshot_discover",
               "snapshot_fallback", "snapshot_extract", "resolve"}
        => contacts \o (IF runPc \in {"internal", "external"} THEN records ELSE <<>>)
              = FoundBy(PageCalls)

\* C19: a miss on a surface gives an empty list for it and is never fatal:
\* the run goes on, and the contacts of the earlier surfaces are kept.
C19_MissIsNotFatal ==
    /\ runPc # "crashed"
    /\ MissesAreEmpty
    /\ AccumulatedKept

\* the same, but for the one miss that ends the run: a list payload with a
\* chunk whose people are null
C19_MissIsNotFatalButNullPeople ==
    /\ runPc = "crashed" =>
          ExtractionRaises(Fetch(web[1], extractLog[Len(extractLog)].url))
    /\ MissesAreEmpty
    /\ AccumulatedKept

\* the resolved contacts of a business, from what the web answered in this
\* run and nothing else
Harvest(b) ==
    IF ~Truthy(b.website) THEN <<>>
    ELSE LET page(url, kind) ==
                 ExtractContactsFromPage(b, url, Fetch(web[1], url), kind, None)
             surfaces(links, kind) ==
                 Flatten([k \in DOMAIN links |-> page(links[k], kind)])
             prioritized == SplitLinks(siteLinks[1], crawl_settings)
             snaps == IF IndexYield # <<>> THEN IndexYield
                      ELSE ListingSnapshots(archiveListing[1], crawl_settings)
             archived ==
                 Flatten([k \in DOMAIN snaps |->
                            ExtractContactsFromSnapshot(b, snaps[k],
                                Fetch(web[1], snaps[k].snapshot_url))])
         IN  DeduplicateContacts(page(b.website, "internal")
                                 \o surfaces(prioritized.internal, "internal")
                                 \o surfaces(prioritized.external, "external")
                                 \o archived)

\* the mapping of the first n businesses
RECURSIVE HarvestMap(_)
HarvestMap(n) ==
    IF n = 0 THEN <<>>
    ELSE MapSet(HarvestMap(n - 1), businesses[n].name, Harvest(businesses[n]))

\* C20: without credentials no persistence call writes or raises anything,
\* and the run returns, for every business, the mapping it returns with a
\* sink that is enabled and succeeds: the one the web's answers determine.
C20_DisabledSinkSameResult ==
    /\ ~client => (store = [businesses |-> <<>>, contacts |-> <<>>] /\ runPc # "failed")
    /\ runPc = "done" => contact_map = HarvestMap(Len(businesses))

C20_Witness ==
    /\ runPc = "done" /\ ~client /\ Len(contact_map) = 2
    /\ Len(contact_map[1][2]) >= 2

(***************************************************************************)
(* Provenance of contact records                                           *)
(***************************************************************************)
\* every contact record the run holds: fresh from a page, gathered for the
\* business, handed to the resolver, resolved, or in the mapping
RunRecords ==
    UNION { Range(contacts), Range(rawContacts), Range(deduped),
            UNION {Range(contact_map[k][2]) : k \in DOMAIN contact_map},
            UNION {Range(extractLog[k].contacts) : k \in DOMAIN extractLog} }

\* C21: in every state of a run, every contact record, raw or resolved,
\* whose source kind is archival carries a non-empty archive timestamp, and
\* every record whose source kind is internal or external carries none.
C21_ProvenanceTimestamp ==
    \A c \in RunRecords :
        /\ c.source_type \in {"internal", "external", "wayback"}
        /\ c.source_type = "wayback" => Truthy(c.snapshot_timestamp)
        /\ c.source_type \in {"internal", "external"} => c.snapshot_timestamp = None

\* a resolved list holding an archival and an internal record, and an
\* external record fetched in the same run
C21_Witness ==
    /\ runPc = "persist"
    /\ \E c \in Range(deduped) : c.source_type = "wayback"
    /\ \E c \in Range(deduped) : c.source_type = "internal"
    /\ \E c \in Range(rawContacts) : c.source_type = "external"

(***************************************************************************)
(* Lists of a resolved contact                                             *)
(***************************************************************************)
\* the normal forms the resolver's key uses, of one value
EmailNormal(e) == lower(strip(e))
PhoneNormal(n) == lstrip0(SelectSeq(n, IsDigit))
LinkNormal(l)  == lower(strip(l))

NoTwoEqual(list, Normal(_)) ==
    \A i, j \in DOMAIN list : i # j => Normal(list[i]) # Normal(list[j])

\* C22: in every resolved contact the resolver returns, the e-mail list, the
\* phone list and the social-link list each hold no two values that are equal
\* after normalization (e-mail and link: trimmed, lower-cased; phone: digits
\* only, leading zeros stripped).
C22_NoNormalizedDuplicates ==
    ddPc = "done" =>
        \A c \in Range(deduped) :
            /\ NoTwoEqual(c.emails, EmailNormal)
            /\ NoTwoEqual(c.phone_numbers, PhoneNormal)
            /\ NoTwoEqual(c.social_links, LinkNormal)

(***************************************************************************)
(* The mapping a run returns                                               *)
(***************************************************************************)
\* C23: for every list of discovered businesses, the mapping a run returns
\* has one entry per processed business, each entry's value is that
\* business's resolved contact list, and the keys are in discovery order.
C23_OneEntryPerBusiness ==
    runPc = "done" =>
        /\ Len(contact_map) = Len(businesses)
        /\ \A k \in DOMAIN contact_map :
              /\ contact_map[k][1] = businesses[k].name
              /\ contact_map[k][2] = Harvest(businesses[k])

\* the keys are the distinct names in order of first discovery, and each
\* value is the resolved list of the last business processed under the name
C23_OneEntryPerName ==
    runPc = "done" =>
        /\ \A k \in DOMAIN businesses :
              \E i \in DOMAIN contact_map : contact_map[i][1] = businesses[k].name
        /\ \A i \in DOMAIN contact_map :
              \E k \in DOMAIN businesses :
                 /\ contact_map[i][1] = businesses[k].name
                 /\ \A j \in (k + 1)..Len(businesses) :
                        businesses[j].name # businesses[k].name
                 /\ contact_map[i][2] = Harvest(businesses[k])
        /\ \A i, j \in DOMAIN contact_map :
              i < j =>
                 /\ contact_map[i][1] # contact_map[j][1]
                 /\ \E k \in DOMAIN businesses :
                        /\ businesses[k].name = contact_map[i][1]
                        /\ \A l \in DOMAIN businesses :
                               businesses[l].name = contact_map[j][1] => k < l

(***************************************************************************)
(* The resolver's effect on its inputs                                     *)
(***************************************************************************)
\* C24: the raw records passed to the resolver are immutable inputs: when
\* _deduplicate_contacts has returned, every input record has the field
\* values it had before the call.
C24_InputsUnchanged ==
    ddPc = "done" => contacts = rawContacts

\* the input records that never were the first of their signature are
\* unchanged, and so is every record of an input without repeated signatures
C24_LaterInputsUnchanged ==
    ddPc = "done" =>
        \A k \in DOMAIN contacts :
            (\A i \in DOMAIN merged : merged[i][2] # k) => contacts[k] = rawContacts[k]

(***************************************************************************)
(* The keys the resolver computes from a record's lists                    *)
(***************************************************************************)
\* the record a signature of `merged` was computed from, as it was passed in
KeySource(k) == rawContacts[merged[k][2]]

\* the sorted, duplicate-free sequence of the trimmed, lower-cased addresses
\* with all empties dropped
EmailKeyReference(emails) ==
    sorted({EmailNormal(e) : e \in Range(emails)} \ {<<>>})

\* C25: for every collection of e-mail strings the e-mail key is the sorted,
\* duplicate-free sequence of the trimmed, lower-cased addresses with all
\* empties dropped; it never contains the empty string.
C25_EmailKey ==
    \A k \in DOMAIN merged :
        /\ merged[k][1][3] = EmailKeyReference(KeySource(k).emails)
        /\ <<>> \notin Range(merged[k][1][3])

\* the key is that sequence for every collection without an entry made of
\* whitespace only
C25_EmailKeyWithoutBlanks ==
    \A k \in DOMAIN merged :
        (\A e \in Range(KeySource(k).emails) : e = <<>> \/ strip(e) # <<>>)
            => /\ merged[k][1][3] = EmailKeyReference(KeySource(k).emails)
               /\ <<>> \notin Range(merged[k][1][3])

\* a cleaned value with its leading zeros stripped, an all-zero value keeping
\* its last zero
ZerosStripped(digits) ==
    IF lstrip0(digits) = <<>> THEN <<48>> ELSE lstrip0(digits)

\* the sorted, duplicate-free sequence of the values' digits with the leading
\* zeros stripped, values without a digit dropped
PhoneKeyReference(numbers) ==
    sorted({ZerosStripped(SelectSeq(n, IsDigit)) :
               n \in {x \in Range(numbers) : SelectSeq(x, IsDigit) # <<>>}})

\* C26: for every collection of phone strings the phone key is the sorted,
\* duplicate-free sequence got by removing every non-digit character from
\* each value and stripping its leading zeros, an all-zero value yielding
\* "0", and values with no digit dropped.
C26_PhoneKey ==
    \A k \in DOMAIN merged :
        merged[k][1][4] = PhoneKeyReference(KeySource(k).phone_numbers)

\* the key is that sequence for every collection whose all-zero values are
\* the single digit "0"
C26_PhoneKeyWithoutZeroRuns ==
    \A k \in DOMAIN merged :
        (\A n \in Range(KeySource(k).phone_numbers) :
            LET digits == SelectSeq(n, IsDigit)
            IN  lstrip0(digits) = <<>> => Len(digits) <= 1)
            => merged[k][1][4] = PhoneKeyReference(KeySource(k).phone_numbers)

(***************************************************************************)
(* The merge rules, on the steps of the resolver that merge                *)
(***************************************************************************)
\* the position, among the input objects, of the base the next record is
\* merged into
BaseIdx == merged[MergedGet(merged, ContactSignature(contacts[nextContact]))][2]

\* C27: once a base has a non-empty source URL it never changes in a merge;
\* an incoming record whose non-empty source URL differs from it adds
\* "Additional source: <url>" to the base's notes, joined with " | " when
\* notes exist; an incoming non-empty source URL is adopted only when the
\* base's source URL is empty.
SourceUrlRule ==
    LET base     == contacts[BaseIdx]
        incoming == contacts[nextContact]
        after    == contacts'[BaseIdx]
        noted    == MergeNotes(base.notes, incoming.notes)
    IN  /\ base.source_url # <<>> => after.source_url = base.source_url
        /\ (base.source_url # <<>> /\ incoming.source_url # <<>>
               /\ incoming.source_url # base.source_url)
              => after.notes = IF Truthy(noted)
                               THEN noted \o SepBar \o AdditionalSource
                                          \o incoming.source_url
                               ELSE AdditionalSource \o incoming.source_url
        /\ (base.source_url = <<>> /\ incoming.source_url # <<>>)
              => after.source_url = incoming.source_url /\ after.notes = noted
        /\ after.source_url # base.source_url
              => base.source_url = <<>> /\ after.source_url = incoming.source_url

C27_SourceUrlRule == [][DedupMerge => SourceUrlRule]_vars

\* a base passed in without a source URL has adopted the first incoming one
\* and noted the second, differing one
C27_Witness ==
    /\ ddPc = "done"
    /\ \E b \in DOMAIN contacts :
          /\ rawContacts[b].source_url = <<>>
          /\ contacts[b].source_url = UrlHome
          /\ IsSubstr(SepBar \o AdditionalSource \o UrlTeam, contacts[b].notes)

\* the rule for one scalar field, given its value in the base before the
\* merge, in the incoming record, and in the base after the merge
ScalarRule(before, incoming, after) ==
    /\ Truthy(before) => after = before
    /\ (~Truthy(before) /\ Truthy(incoming)) => after = incoming
    /\ after # before => (~Truthy(before) /\ Truthy(incoming) /\ after = incoming)

\* C28: a base's name, position and location are each filled from an
\* incoming record only when the base's value is empty; a value that is
\* non-empty in the base is kept through every merge, whatever comes in.
BasePrecedence ==
    LET base     == contacts[BaseIdx]
        incoming == contacts[nextContact]
        after    == contacts'[BaseIdx]
    IN  /\ ScalarRule(base.person_name, incoming.person_name, after.person_name)
        /\ ScalarRule(base.position, incoming.position, after.position)
        /\ ScalarRule(base.location, incoming.location, after.location)

C28_BasePrecedence == [][DedupMerge => BasePrecedence]_vars

\* a base kept its name against another spelling and took the location it
\* did not have
C28_Witness ==
    /\ ddPc = "done"
    /\ \E b, k \in DOMAIN contacts :
          /\ b < k
          /\ ContactSignature(rawContacts[b]) = ContactSignature(rawContacts[k])
          /\ rawContacts[b].person_name = JaneDoe /\ rawContacts[k].person_name = JANEDOE
          /\ rawContacts[b].location = None /\ rawContacts[k].location = NY
          /\ contacts[b].person_name = JaneDoe /\ contacts[b].location = NY

\* the items of seq at the positions idxs, in order
RECURSIVE PickFrom(_, _, _)
PickFrom(seq, idxs, i) ==
    IF i > Len(seq) THEN <<>>
    ELSE (IF i \in idxs THEN <<seq[i]>> ELSE <<>>) \o PickFrom(seq, idxs, i + 1)

\* the base's list, then the incoming items eligible under `eligible` that
\* are not case-insensitively equal to an item of the base or to an earlier
\* eligible incoming item, in the incoming order
ListUnion(primary, secondary, eligible) ==
    LET fresh == {i \in DOMAIN secondary :
                    /\ secondary[i] \in eligible
                    /\ \A p \in Range(primary) : lower(p) # lower(secondary[i])
                    /\ \A j \in 1..(i - 1) :
                          secondary[j] \in eligible
                             => lower(secondary[j]) # lower(secondary[i])}
    IN  primary \o PickFrom(secondary, fresh, 1)

ListsAreUnion(Eligible(_)) ==
    LET base     == contacts[BaseIdx]
        incoming == contacts[nextContact]
        after    == contacts'[BaseIdx]
    IN  /\ after.emails = ListUnion(base.emails, incoming.emails,
                                    Eligible(incoming.emails))
        /\ after.phone_numbers = ListUnion(base.phone_numbers, incoming.phone_numbers,
                                           Eligible(incoming.phone_numbers))
        /\ after.social_links = ListUnion(base.social_links, incoming.social_links,
                                          Eligible(incoming.social_links))

AllItems(list) == Range(list)
NonEmptyItems(list) == Range(list) \ {<<>>}

\* C29: a merge gives, for each of emails, phones and social links, the
\* base's list unchanged and in its order, followed by the incoming items
\* not case-insensitively equal to an item already present, in the incoming
\* order, each appended once.
C29_ListUnion == [][DedupMerge => ListsAreUnion(AllItems)]_vars

\* C29, amended: ... followed by the non-empty incoming items not
\* case-insensitively equal to an item already present; an empty incoming
\* item is never appended.
C29_ListUnionOfNonEmpty == [][DedupMerge => ListsAreUnion(NonEmptyItems)]_vars

\* one merge skipped an empty entry and an address in another case, and
\* appended the number written with punctuation
C29_Witness ==
    /\ ddPc = "done"
    /\ \E b, k \in DOMAIN contacts :
          /\ b < k
          /\ rawContacts[b].emails = <<JANEmail>> /\ rawContacts[b].phone_numbers = <<PhoneRaw>>
          /\ rawContacts[k].emails = <<<<>>, janeEmail>>
          /\ rawContacts[k].phone_numbers = <<PhoneFmt>>
          /\ contacts[b].emails = <<JANEmail>>
          /\ contacts[b].phone_numbers = <<PhoneRaw, PhoneFmt>>

\* the notes rule as stated: nothing comes in, or it is already there: no
\* change; the base has none: copied; otherwise appended after " | "
NotesReference(base_notes, incoming_notes) ==
    IF ~Truthy(incoming_notes) THEN base_notes
    ELSE IF ~Truthy(base_notes) THEN incoming_notes
    ELSE IF IsSubstr(lower(incoming_notes), lower(base_notes)) THEN base_notes
    ELSE base_notes \o SepBar \o incoming_notes

\* the source URL rule adds its remark in this merge
SourceNoted(base, incoming) ==
    /\ incoming.source_url # <<>> /\ base.source_url # <<>>
    /\ incoming.source_url # base.source_url

\* C30: if the base has no notes the incoming notes are copied verbatim; if
\* it has notes and the incoming ones are not a case-insensitive substring
\* of them, they are appended after " | "; if the incoming notes are empty
\* or already a case-insensitive substring, the notes rule leaves the base's
\* notes unchanged.  (The source URL rule then adds its remark, or nothing.)
NotesRule ==
    LET base     == contacts[BaseIdx]
        incoming == contacts[nextContact]
        after    == contacts'[BaseIdx]
        noted    == NotesReference(base.notes, incoming.notes)
        remark   == AdditionalSource \o incoming.source_url
    IN  after.notes = IF ~SourceNoted(base, incoming) THEN noted
                      ELSE IF Truthy(noted) THEN noted \o SepBar \o remark
                      ELSE remark

C30_NotesRule == [][DedupMerge => NotesRule]_vars

\* a base without notes took "Bio" from the second record, and "Partner"
\* from the third was appended to it
C30_Witness ==
    /\ ddPc = "done" /\ Len(rawContacts) = 3 /\ Len(deduped) = 1
    /\ rawContacts[1].notes = None /\ rawContacts[1].source_url = UrlHome
    /\ rawContacts[2].notes = Bio /\ rawContacts[2].source_url = UrlTeam
    /\ rawContacts[3].notes = Partner /\ rawContacts[3].source_url = UrlHome
    /\ deduped[1].notes = Bio \o SepBar \o AdditionalSource \o UrlTeam
                              \o SepBar \o Partner

(***************************************************************************)
(* Snapshot URLs of the fallback tier                                      *)
(***************************************************************************)
\* the URL the extraction pass delivered is a wildcard URL or omits the
\* entry's timestamp
NotConcrete(entry) ==
    \/ IsSubstr(Star, strip(entry.snapshot_url))
    \/ ~IsSubstr(strip(entry.timestamp), strip(entry.snapshot_url))

\* the returned snapshot comes from the delivered entry, its URL rebuilt
\* when the delivered one is not concrete
ReturnedFor(snapshot, entry) ==
    /\ snapshot.timestamp = strip(entry.timestamp)
    /\ snapshot.original_url = strip(entry.original_url)
    /\ snapshot.snapshot_url =
          IF NotConcrete(entry)
          THEN ArchivePrefix \o snapshot.timestamp \o Slash \o snapshot.original_url
          ELSE strip(entry.snapshot_url)

Rebuilt ==
    \A k \in DOMAIN snapshots :
        \E e \in Range(archiveListing[1].snapshots) : ReturnedFor(snapshots[k], e)

Concrete(snapshot) ==
    /\ IsSubstr(snapshot.timestamp, snapshot.snapshot_url)
    /\ ~IsSubstr(Star, snapshot.snapshot_url)

\* C31: every snapshot the fallback returns has a concrete snapshot URL: it
\* contains the snapshot's timestamp and is not a wildcard URL; whenever the
\* delivered URL contains a wildcard or omits the timestamp, the returned
\* URL is "https://web.archive.org/web/<timestamp>/<original_url>".
C31_FallbackUrlsConcrete ==
    FromListing => /\ Rebuilt
                   /\ \A k \in DOMAIN snapshots : Concrete(snapshots[k])

\* the rebuilding always happens as stated, and the returned URL is concrete
\* whenever neither the timestamp nor the original URL holds a wildcard
C31_ConcreteUnlessWildcardOrigin ==
    FromListing =>
        /\ Rebuilt
        /\ \A k \in DOMAIN snapshots :
              (~IsSubstr(Star, snapshots[k].timestamp)
                  /\ ~IsSubstr(Star, snapshots[k].original_url))
                 => Concrete(snapshots[k])

(***************************************************************************)
(* Folding in an observation a second time                                 *)
(***************************************************************************)
\* the resolved contacts of the input followed by a copy of its k-th record
Refolded(k) == DeduplicateContacts(Append(rawContacts, rawContacts[k]))

WithoutNotes(list) == [i \in DOMAIN list |-> [list[i] EXCEPT !.notes = <<>>]]

\* C32: folding in an observation that was already folded in changes
\* nothing: for every input sequence S and every record r of S, resolving S
\* followed by a copy of r yields resolved contacts equal in every field to
\* those of resolving S.
C32_RefoldChangesNothing ==
    ddPc = "done" => \A k \in DOMAIN rawContacts : Refolded(k) = deduped

\* every field but the notes is as it was
C32_RefoldChangesNotesOnly ==
    ddPc = "done" =>
        \A k \in DOMAIN rawContacts : WithoutNotes(Refolded(k)) = WithoutNotes(deduped)

(***************************************************************************)
(* Natural keys of the contacts of one persistence call                    *)
(***************************************************************************)
NaturalKey(contact) == ConflictKey("contacts", ContactEntry(contact))

\* C33: the resolved contacts handed to upsert_contacts in one call have
\* pairwise distinct persistence natural keys (business name, person name or
\* "", position or "", source kind, archive timestamp or ""), so no row
\* written for one of them is overwritten by another of the same call.
C33_DistinctNaturalKeys ==
    \A c \in DOMAIN persistLog :
        \A i, j \in DOMAIN persistLog[c] :
            i # j => NaturalKey(persistLog[c][i]) # NaturalKey(persistLog[c][j])

====
